---- MODULE Spec2Model ----
(***************************************************************************)
(* A model of femtobot's skill package system and of the memory store it   *)
(* uses: the runtime SkillManager (src/skills/manager.rs), the activate    *)
(* tool (src/tools/activate_skill.rs), the skill hub installer             *)
(* (src/skills/hub/*.rs) and the MEMORY.md store                           *)
(* (src/memory/simple/file_store.rs).                                      *)
(*                                                                         *)
(* Text is modelled as a sequence of tokens.  A token is one character or  *)
(* an opaque run of non-whitespace characters ("---", "name: a"); the      *)
(* whitespace tokens are SP, CR, LF.  Names are sequences of one-character *)
(* strings so that trimming, lowercasing and sanitizing are computed.      *)
(***************************************************************************)
EXTENDS Integers, Sequences, FiniteSets, TLC

VARIABLES
    fs_roots,      \* manager: the skill roots on disk, in precedence order
    mgr_call,      \* manager: the last call made and what it returned
    memory_file,   \* memory store: content of MEMORY.md
    mem_lock,      \* memory store: holder of MEMORY_FILE_LOCK (0 = free)
    mem_proc,      \* memory store: per appender, its position and locals
    src_input,     \* source parser: the raw source string
    src_parsed,    \* source parser: what parse_source returned
    hub            \* installer: request, disk, scratch directory, progress

vars == <<fs_roots, mgr_call, memory_file, mem_lock, mem_proc, src_input, src_parsed, hub>>

None == [some |-> FALSE]
Some(v) == [some |-> TRUE, val |-> v]

\* let v = e; Op(v): e is evaluated once, however often Op uses v
Let(e, Op(_)) == CHOOSE out \in {Op(v) : v \in {e}} : TRUE

-----------------------------------------------------------------------------
(* Characters and strings *)

SP == " "
CR == "CR"
LF == "LF"
BOM == "BOM"

\* char::is_whitespace, restricted to the whitespace the model's texts hold
IsWhitespace(c) == c \in {SP, CR, LF}

UpperChars == <<"A", "B", "C", "D", "E", "F", "G", "H", "I", "J", "K", "L", "M",
                "N", "O", "P", "Q", "R", "S", "T", "U", "V", "W", "X", "Y", "Z">>
LowerChars == <<"a", "b", "c", "d", "e", "f", "g", "h", "i", "j", "k", "l", "m",
                "n", "o", "p", "q", "r", "s", "t", "u", "v", "w", "x", "y", "z">>
DigitChars == <<"0", "1", "2", "3", "4", "5", "6", "7", "8", "9">>

Range(s) == {s[i] : i \in 1..Len(s)}

\* u8::to_ascii_lowercase
ToAsciiLowerChar(c) ==
    IF c \in Range(UpperChars)
    THEN LowerChars[CHOOSE i \in 1..Len(UpperChars) : UpperChars[i] = c]
    ELSE c

\* str::to_ascii_lowercase
ToAsciiLowercase(s) == [i \in 1..Len(s) |-> ToAsciiLowerChar(s[i])]

\* str::eq_ignore_ascii_case
EqIgnoreAsciiCase(a, b) == ToAsciiLowercase(a) = ToAsciiLowercase(b)

RECURSIVE TrimStartIn(_, _)
\* str::trim_start_matches over a set of characters
TrimStartIn(s, set) ==
    IF s # <<>> /\ Head(s) \in set THEN TrimStartIn(Tail(s), set) ELSE s

RECURSIVE TrimEndIn(_, _)
\* str::trim_end_matches over a set of characters
TrimEndIn(s, set) ==
    IF s # <<>> /\ s[Len(s)] \in set THEN TrimEndIn(SubSeq(s, 1, Len(s) - 1), set) ELSE s

\* str::trim
Trim(s) == TrimEndIn(TrimStartIn(s, {SP, CR, LF}), {SP, CR, LF})

\* byte order of the characters the model compares (ASCII order)
AsciiOrder == <<SP, "*", "-", ".", "/">> \o DigitChars \o <<":", "@">> \o UpperChars
                  \o <<"_">> \o LowerChars

Ord(c) == IF c \in Range(AsciiOrder)
          THEN CHOOSE i \in 1..Len(AsciiOrder) : AsciiOrder[i] = c
          ELSE Len(AsciiOrder) + 1

RECURSIVE StrLess(_, _)
\* a < b for str::cmp (lexicographic by byte)
StrLess(a, b) ==
    IF b = <<>> THEN FALSE
    ELSE IF a = <<>> THEN TRUE
    ELSE IF Head(a) # Head(b) THEN Ord(Head(a)) < Ord(Head(b))
    ELSE StrLess(Tail(a), Tail(b))

RECURSIVE SplitFrom(_, _, _)
\* the chunks of s from position start on, the scan being at position i
SplitFrom(s, start, i) ==
    IF i > Len(s) THEN (IF start <= Len(s) THEN <<SubSeq(s, start, Len(s))>> ELSE <<>>)
    ELSE IF s[i] = LF THEN <<SubSeq(s, start, i)>> \o SplitFrom(s, i + 1, i + 1)
    ELSE SplitFrom(s, start, i + 1)

\* str::split_inclusive('\n'): every chunk but the last ends with LF
SplitInclusive(s) == Let(s, LAMBDA v : SplitFrom(v, 1, 1))

-----------------------------------------------------------------------------
(* Runtime skill manager: src/skills/manager.rs *)

\* the roots of the model's SkillManager, lowest precedence first (the two
\* roots of tests::precedence_uses_later_roots)
RootSources == <<"agents-personal", "workspace">>

\* cfg!(target_os): the model is the linux build
CurrentPlatform == "linux"

\* the executables a PATH scan finds
PathExecutables == {"sh"}

\* One line of YAML frontmatter, as serde_yaml reads it into SkillFrontmatter:
\* the key it sets and the value.  A line that is no entry of this table is
\* not a "key: value" line of the struct.
YamlLines == {"name: a", "name: A", "name: b", "name: ''",
              "description: agents-personal", "description: workspace",
              "platforms: [windows]", "platforms: [macOS, Linux]",
              "deps: [nope]", "deps: [sh]", "deps: [sh, nope]"}

YamlKey(line) ==
    CASE line \in {"name: a", "name: A", "name: b", "name: ''"} -> "name"
      [] line \in {"description: agents-personal", "description: workspace"} -> "description"
      [] line \in {"platforms: [windows]", "platforms: [macOS, Linux]"} -> "platforms"
      [] OTHER -> "deps"

YamlValue(line) ==
    CASE line = "name: a" -> <<"a">>
      [] line = "name: A" -> <<"A">>
      [] line = "name: b" -> <<"b">>
      [] line = "name: ''" -> <<>>
      [] line = "description: agents-personal" -> "agents-personal"
      [] line = "description: workspace" -> "workspace"
      [] line = "platforms: [windows]" -> {"windows"}
      [] line = "platforms: [macOS, Linux]" -> {"macOS", "Linux"}
      [] line = "deps: [nope]" -> {"nope"}
      [] line = "deps: [sh]" -> {"sh"}
      [] OTHER -> {"sh", "nope"}

\* the lines of a YAML block: split at LF, line ends and blank lines dropped
YamlEntries(yaml) ==
    Let(SplitInclusive(yaml), LAMBDA chunks :
        SelectSeq([i \in 1..Len(chunks) |-> Trim(chunks[i])], LAMBDA l : l # <<>>))

\* serde_yaml::from_str::<SkillFrontmatter>: None unless every line sets one
\* known field and no field is set twice; absent fields take their defaults
SerdeYaml(yaml) ==
    Let(YamlEntries(yaml), LAMBDA entries :
        LET ok == /\ \A i \in 1..Len(entries) :
                        Len(entries[i]) = 1 /\ entries[i][1] \in YamlLines
                  /\ \A i, j \in 1..Len(entries) :
                        i # j => YamlKey(entries[i][1]) # YamlKey(entries[j][1])
            Has(key) == \E i \in 1..Len(entries) : YamlKey(entries[i][1]) = key
            Get(key) == YamlValue(entries[CHOOSE i \in 1..Len(entries) :
                                              YamlKey(entries[i][1]) = key][1])
        IN  IF ~ok THEN None
            ELSE Some([name |-> IF Has("name") THEN Some(Get("name")) ELSE None,
                       description |-> IF Has("description") THEN Get("description") ELSE "",
                       platforms |-> IF Has("platforms") THEN Get("platforms") ELSE {},
                       deps |-> IF Has("deps") THEN Get("deps") ELSE {}]))

RECURSIVE FindCloseUntrimmed(_, _, _, _, _)
\* a split that returns the text after the closing line as it is
FindCloseUntrimmed(content, chunks, i, consumed, yaml_len) ==
    IF i > Len(chunks) THEN None
    ELSE LET trimmed == TrimEndIn(chunks[i], {CR, LF})
             consumed2 == consumed + Len(chunks[i])
             first_len == Len(chunks[1])
         IN  IF trimmed = <<"---">> \/ trimmed = <<"...">>
             THEN Some([yaml |-> SubSeq(content, first_len + 1, first_len + yaml_len),
                        body |-> SubSeq(content, consumed2 + 1, Len(content))])
             ELSE FindCloseUntrimmed(content, chunks, i + 1, consumed2,
                                     yaml_len + Len(chunks[i]))

RECURSIVE FindClose(_, _, _, _, _)
\* the loop of split_frontmatter over the chunks after the first
FindClose(content, chunks, i, consumed, yaml_len) ==
    IF i > Len(chunks) THEN None
    ELSE LET trimmed == TrimEndIn(chunks[i], {CR, LF})
             consumed2 == consumed + Len(chunks[i])
             first_len == Len(chunks[1])
         IN  IF trimmed = <<"---">> \/ trimmed = <<"...">>
             THEN Some([yaml |-> SubSeq(content, first_len + 1, first_len + yaml_len),
                        body |-> Trim(SubSeq(content, consumed2 + 1, Len(content)))])
             ELSE FindClose(content, chunks, i + 1, consumed2, yaml_len + Len(chunks[i]))

\* split_frontmatter
SplitFrontmatter(content) ==
    Let(<<content, SplitInclusive(content)>>, LAMBDA v :
        IF v[2] = <<>> THEN None
        ELSE IF TrimEndIn(v[2][1], {CR, LF}) # <<"---">> THEN None
        ELSE FindClose(v[1], v[2], 2, Len(v[2][1]), 0))

PlatformLower(p) ==
    CASE p = "macOS" -> "macos"
      [] p = "Linux" -> "linux"
      [] OTHER -> p

\* normalize_platform
NormalizePlatform(p) ==
    LET l == PlatformLower(p) IN IF l \in {"macos", "osx"} THEN "darwin" ELSE l

\* platform_allowed
PlatformAllowed(platforms) ==
    \/ platforms = {}
    \/ \E p \in platforms :
          LET n == NormalizePlatform(p) IN n = "all" \/ n = "*" \/ n = CurrentPlatform

\* command_exists, the branch of a build that is not for windows
CommandExists(command) == command \in PathExecutables

\* a dependency gate that reports nothing missing
MissingDepsNone(deps) == {}

\* missing_deps
MissingDeps(deps) == {dep \in deps : ~CommandExists(dep)}

\* parse_skill_md: Some([meta, body]) or None.  platforms and deps are sorted
\* and deduplicated lists in the code, sets here; version and updated_at are
\* left out of the metadata.
ParseSkillMd(content, dir_path, default_source) ==
    Let(SplitFrontmatter(TrimStartIn(content, {BOM})), LAMBDA split :
        IF ~split.some THEN None
        ELSE IF Trim(split.val.yaml) = <<>> THEN None
        ELSE Let(SerdeYaml(split.val.yaml), LAMBDA fm :
                 IF ~fm.some THEN None
                 ELSE LET given == IF fm.val.name.some THEN Trim(fm.val.name.val) ELSE <<>>
                          name == IF given = <<>> THEN dir_path[2] ELSE given
                      IN  Some([meta |-> [name |-> name,
                                          description |-> fm.val.description,
                                          dir_path |-> dir_path,
                                          platforms |-> {NormalizePlatform(p) :
                                                            p \in fm.val.platforms},
                                          deps |-> fm.val.deps,
                                          source |-> default_source],
                                body |-> split.val.body])))

\* the YAML text parse_skill_md hands to serde_yaml, None when it returns
\* before
ManagerYamlBlock(content) ==
    Let(SplitFrontmatter(TrimStartIn(content, {BOM})), LAMBDA split :
        IF ~split.some THEN None
        ELSE IF Trim(split.val.yaml) = <<>> THEN None
        ELSE Some(split.val.yaml))

\* skill_is_available: the error it returns, or "ok"
SkillIsAvailable(skill) ==
    Let(skill, LAMBDA v :
        IF ~PlatformAllowed(v.platforms)
        THEN [kind |-> "platform", name |-> v.name, detail |-> v.platforms]
        ELSE IF MissingDeps(v.deps) # {}
        THEN [kind |-> "deps", name |-> v.name, detail |-> MissingDeps(v.deps)]
        ELSE [kind |-> "ok", name |-> v.name, detail |-> {}])

\* HashMap::insert
MapInsert(m, key, value) ==
    Let(<<m, key, value>>, LAMBDA v :
        [k \in DOMAIN v[1] \cup {v[2]} |-> IF k = v[2] THEN v[3] ELSE v[1][k]])

\* a merge pass that gates every insertion, whatever the mode
ShouldInsertGated(include_unavailable, meta) == SkillIsAvailable(meta).kind = "ok"

\* a merge pass that inserts every parsed entry, whatever the mode
ShouldInsertAlways(include_unavailable, meta) == TRUE

\* the condition under which discover_skills_internal inserts a parsed entry
ShouldInsert(include_unavailable, meta) ==
    include_unavailable \/ SkillIsAvailable(meta).kind = "ok"

RECURSIVE MergeEntries(_, _, _, _, _)
\* the inner loop of discover_skills_internal over one root's read_dir listing
MergeEntries(merged, roots, r, i, include_unavailable) ==
    IF i > Len(roots[r]) THEN merged
    ELSE Let(<<merged, ParseSkillMd(roots[r][i].skill_md, <<r, roots[r][i].dir_name>>,
                                    RootSources[r])>>,
             LAMBDA v :
                 MergeEntries(IF v[2].some /\ ShouldInsert(include_unavailable, v[2].val.meta)
                              THEN MapInsert(v[1], ToAsciiLowercase(v[2].val.meta.name),
                                             v[2].val.meta)
                              ELSE v[1],
                              roots, r, i + 1, include_unavailable))

RECURSIVE MergeRoots(_, _, _, _)
\* the outer loop of discover_skills_internal, roots in precedence order
MergeRoots(merged, roots, r, include_unavailable) ==
    IF r > Len(roots) THEN merged
    ELSE MergeRoots(MergeEntries(merged, roots, r, 1, include_unavailable),
                    roots, r + 1, include_unavailable)

RECURSIVE SortByName(_)
\* skills.sort_by(|a, b| a.name.cmp(&b.name)) of a set of entries with distinct names
SortByName(set) ==
    Let(set, LAMBDA v :
        IF v = {} THEN <<>>
        ELSE Let(CHOOSE s \in v : \A t \in v \ {s} : StrLess(s.name, t.name),
                 LAMBDA least : <<least>> \o SortByName(v \ {least})))

\* discover_skills_internal
DiscoverSkillsInternal(roots, include_unavailable) ==
    Let(MergeRoots(<<>>, roots, 1, include_unavailable), LAMBDA merged :
        SortByName({merged[k] : k \in DOMAIN merged}))

\* discover_skills
DiscoverSkills(roots) == DiscoverSkillsInternal(roots, FALSE)

\* std::fs::read_to_string of a skill directory's SKILL.md
ReadSkillMd(roots, dir_path) ==
    LET r == dir_path[1]
        hits == {i \in 1..Len(roots[r]) : roots[r][i].dir_name = dir_path[2]}
    IN  IF hits = {} THEN None ELSE Some(roots[r][CHOOSE i \in hits : TRUE].skill_md)

\* the body of the loop of load_skill_checked, for the entry whose name matched
LoadSelected(later, requested, skill) ==
    Let(SkillIsAvailable(skill), LAMBDA gate :
        IF gate.kind # "ok" THEN [ok |-> FALSE, err |-> gate]
        ELSE Let(ReadSkillMd(later, skill.dir_path), LAMBDA content :
                 Let(IF content.some
                     THEN ParseSkillMd(content.val, skill.dir_path, skill.source)
                     ELSE None,
                     LAMBDA parsed :
                         IF parsed.some
                         THEN [ok |-> TRUE, meta |-> parsed.val.meta, body |-> parsed.val.body]
                         ELSE [ok |-> FALSE,
                               err |-> [kind |-> "load", name |-> requested,
                                        detail |-> {}]])))

\* load_skill_checked; `roots` is the disk at the merge pass, `later` the disk
\* at what the call reads after it: the selected SKILL.md, or the roots again
\* for the names of the available skills
LoadSkillChecked(roots, later, name) ==
    Let(<<Trim(name), DiscoverSkillsInternal(roots, TRUE)>>, LAMBDA v :
        LET requested == v[1]
            all_skills == v[2]
            hits == {i \in 1..Len(all_skills) :
                        EqIgnoreAsciiCase(all_skills[i].name, requested)}
        IN  IF requested = <<>>
            THEN [ok |-> FALSE, err |-> [kind |-> "empty", name |-> requested, detail |-> {}]]
            ELSE IF hits # {}
            THEN LoadSelected(later, requested,
                              all_skills[CHOOSE i \in hits : \A j \in hits : i <= j])
            ELSE Let(DiscoverSkills(later), LAMBDA available :
                     [ok |-> FALSE,
                      err |-> [kind |-> "notfound", name |-> requested,
                               detail |-> {available[i].name : i \in 1..Len(available)}]]))

(* The activate_skill tool: src/tools/activate_skill.rs *)

\* ActivateSkillTool::call: Ok(text) or Err(ToolError)
ActivateSkillCall(roots, skill_name_arg) ==
    Let(Trim(skill_name_arg), LAMBDA skill_name :
        IF skill_name = <<>>
        THEN [ok |-> FALSE, text |-> <<"Missing required field: skill_name">>]
        ELSE Let(LoadSkillChecked(roots, roots, skill_name), LAMBDA loaded :
                 IF loaded.ok
                 THEN [ok |-> TRUE, text |-> <<"# Skill: ", loaded.meta, loaded.body>>]
                 ELSE [ok |-> TRUE, text |-> <<"Error: ", loaded.err>>]))


-----------------------------------------------------------------------------
(* The manager's calls over a disk of skill roots *)

\* most skill directories one root holds
MaxEntries == 1

\* the frontmatter lines, besides name and description, of the model's manifests
GateLines == {<<"platforms: [macOS, Linux]", "deps: [sh]">>,
              <<"deps: [sh, nope]">>,
              <<"platforms: [windows]", "deps: [sh]">>,
              <<"platforms: [windows]", "deps: [nope]">>}

RECURSIVE JoinLines(_)
JoinLines(lines) ==
    IF lines = <<>> THEN <<>> ELSE <<Head(lines), LF>> \o JoinLines(Tail(lines))

\* a SKILL.md as tests::write_skill writes it: frontmatter, then a body
Manifest(name_line, root, gate_lines) ==
    <<"---", LF>>
    \o JoinLines(<<name_line, "description: " \o RootSources[root]>> \o gate_lines)
    \o <<"---", LF, "Instructions", SP, RootSources[root], LF>>

\* the SKILL.md files a directory of root r may hold; the last has no frontmatter
Manifests(r) ==
    {Manifest(n, r, g) : n \in {"name: a", "name: A"}, g \in GateLines}
    \cup {<<"Instructions", LF>>}

DirName(i) == <<"d", DigitChars[i + 1]>>

\* the read_dir listings of root r: up to MaxEntries skill directories
RootListings(r) ==
    UNION {{[i \in 1..n |-> [dir_name |-> DirName(i), skill_md |-> f[i]]] :
               f \in [1..n -> Manifests(r)]} : n \in 0..MaxEntries}

\* the names a caller asks for
RequestNames == {<<"a">>, <<SP, "A", SP>>, <<"b">>, <<SP>>}

NoCall == [op |-> "none", arg |-> <<>>, result |-> <<>>]

InitMgr ==
    /\ fs_roots \in {<<r1, r2>> : r1 \in RootListings(1), r2 \in RootListings(2)}
    /\ mgr_call = NoCall
    /\ memory_file = <<>>
    /\ mem_lock = 0
    /\ mem_proc = <<>>
    /\ src_input = <<>>
    /\ src_parsed = None
    /\ hub = None

\* The manager keeps no state between calls (it holds only its roots), so a
\* behaviour makes one call on the disk it starts with.
MgrDiscover ==
    /\ mgr_call = NoCall
    /\ mgr_call' = [op |-> "discover_skills", arg |-> <<>>,
                    result |-> DiscoverSkills(fs_roots)]
    /\ UNCHANGED <<fs_roots, memory_file, mem_lock, mem_proc, src_input, src_parsed, hub>>

MgrLoad ==
    \E name \in RequestNames :
        /\ mgr_call = NoCall
        /\ mgr_call' = [op |-> "load_skill_checked", arg |-> name,
                        result |-> LoadSkillChecked(fs_roots, fs_roots, name)]
        /\ UNCHANGED <<fs_roots, memory_file, mem_lock, mem_proc, src_input, src_parsed, hub>>

MgrActivate ==
    \E name \in RequestNames :
        /\ mgr_call = NoCall
        /\ mgr_call' = [op |-> "activate_skill", arg |-> name,
                        result |-> ActivateSkillCall(fs_roots, name)]
        /\ UNCHANGED <<fs_roots, memory_file, mem_lock, mem_proc, src_input, src_parsed, hub>>

NextMgr == MgrDiscover \/ MgrLoad \/ MgrActivate

SpecMgr == InitMgr /\ [][NextMgr]_vars


-----------------------------------------------------------------------------
(* The memory store: src/memory/simple/file_store.rs *)

\* MAX_EXTRACTED_NOTES_CHARS
MaxExtractedNotesChars == 8000

\* bytes of the "- [YYYY-MM-DD] " that starts a bullet
DatePrefixLen == 15

\* A piece of MEMORY.md: a line feed, a "## " header line, a bullet, or other
\* text, with its length in bytes.
LineFeed == [kind |-> "lf", id |-> "", len |-> 1]
ExtractedSectionHeader == [kind |-> "hdr", id |-> "## Extracted Notes", len |-> 18]
RememberedFactsSectionHeader == [kind |-> "hdr", id |-> "## Remembered Facts", len |-> 19]

\* format!("- [{today}] {f}")
Bullet(fact) == [kind |-> "bullet", id |-> fact.id, len |-> DatePrefixLen + fact.len]

RECURSIVE ByteLen(_)
\* String::len
ByteLen(text) == IF text = <<>> THEN 0 ELSE Head(text).len + ByteLen(Tail(text))

RECURSIVE JoinBullets(_)
\* facts.iter().map(bullet).collect::<Vec<_>>().join("\n")
JoinBullets(facts) ==
    IF facts = <<>> THEN <<>>
    ELSE IF Len(facts) = 1 THEN <<Bullet(facts[1])>>
    ELSE <<Bullet(facts[1]), LineFeed>> \o JoinBullets(Tail(facts))

\* str::find of a section header: the first position that holds it, or 0
FindHeader(text, header) ==
    IF \E i \in 1..Len(text) : text[i] = header
    THEN CHOOSE i \in 1..Len(text) : text[i] = header /\ \A j \in 1..(i - 1) : text[j] # header
    ELSE 0

\* rest.find("\n## "): the first line feed that a header line follows, or 0
FindNextSection(rest) ==
    LET hits == {i \in 1..(Len(rest) - 1) : rest[i] = LineFeed /\ rest[i + 1].kind = "hdr"}
    IN  IF hits = {} THEN 0 ELSE CHOOSE i \in hits : \A j \in hits : i <= j

\* combined.len() > MAX_EXTRACTED_NOTES_CHARS
TooLarge(combined) == ByteLen(combined) > MaxExtractedNotesChars

RECURSIVE TrimOldest(_)
\* the loop that drops the first line of the section while it is too large
TrimOldest(combined) ==
    Let(combined, LAMBDA c :
        IF TooLarge(c) /\ (\E i \in 1..Len(c) : c[i] = LineFeed)
        THEN TrimOldest(SubSeq(c, FindHeader(c, LineFeed) + 1, Len(c)))
        ELSE c)

\* the section body of the file, extended by the new bullets
Combined(existing, header, new_bullets) ==
    LET after_header == FindHeader(existing, header)
        rest == SubSeq(existing, after_header + 1, Len(existing))
        found == FindNextSection(rest)
        section_end == IF found = 0 THEN Len(rest) ELSE found - 1
        section_body == TrimStartIn(SubSeq(rest, 1, section_end), {LineFeed})
    IN  IF section_body = <<>> THEN new_bullets
        ELSE section_body \o <<LineFeed>> \o new_bullets

\* the new content of the file: the bullets appended to the section `header`,
\* which is created at the end of the file when the file lacks it
Updated(existing, header, new_bullets, trims) ==
    Let(existing, LAMBDA e :
        IF FindHeader(e, header) # 0
        THEN LET after_header == FindHeader(e, header)
                 rest == SubSeq(e, after_header + 1, Len(e))
                 found == FindNextSection(rest)
                 after_section == IF found = 0 THEN <<>> ELSE SubSeq(rest, found, Len(rest))
             IN  SubSeq(e, 1, after_header) \o <<LineFeed>>
                 \o (IF trims THEN TrimOldest(Combined(e, header, new_bullets))
                     ELSE Combined(e, header, new_bullets))
                 \o after_section
        ELSE (IF e # <<>> /\ e[Len(e)] # LineFeed THEN e \o <<LineFeed>> ELSE e)
             \o <<LineFeed, header, LineFeed>> \o new_bullets \o <<LineFeed>>)

\* the section an append call writes to
HeaderOf(call) ==
    IF call.op = "append_extracted_facts" THEN ExtractedSectionHeader
    ELSE RememberedFactsSectionHeader

\* what the call computes from the content it read
UpdatedBy(call) ==
    Updated(call.existing, HeaderOf(call), JoinBullets(call.facts),
            call.op = "append_extracted_facts")

\* whether the call enters the body of the trimming loop
TrimFires(call) ==
    /\ call.op = "append_extracted_facts"
    /\ FindHeader(call.existing, ExtractedSectionHeader) # 0
    /\ TooLarge(Combined(call.existing, ExtractedSectionHeader, JoinBullets(call.facts)))

(* Concurrent append calls on clones of one MemoryStore *)

\* the threads that call an append function, each once
MaxAppenders == 2

\* bytes of a short fact and of a long one
SmallFactLen == 6
BigFactLen == 3990

Appenders == 1..MaxAppenders

Fact(tag, n) == [id |-> "fact-" \o tag, len |-> n]

\* a call that has not started: what it read and whether it trimmed are unset
Call(op, facts) ==
    [op |-> op, facts |-> facts, pc |-> "start", existing |-> <<>>, trimmed |-> FALSE]

\* the calls thread p may make: facts that are its own, so all facts differ
CallsOf(p) ==
    {Call("append_extracted_facts", <<Fact(ToString(p), n)>>) : n \in {SmallFactLen, BigFactLen}}
    \cup {Call("append_extracted_facts",
               <<Fact(ToString(p), SmallFactLen), Fact(ToString(p) \o "b", SmallFactLen)>>),
          Call("append_remembered_fact", <<Fact(ToString(p), SmallFactLen)>>),
          Call("append_extracted_facts", <<>>)}

OtherText == [kind |-> "text", id |-> "# Memory", len |-> 8]
OldBullet == [kind |-> "bullet", id |-> "old", len |-> 18]

\* MEMORY.md before the calls: absent or empty, text without a final line
\* feed, or a file that holds both sections
InitialFiles ==
    {<<>>,
     <<OtherText>>,
     <<OtherText, LineFeed, LineFeed, ExtractedSectionHeader, LineFeed, OldBullet, LineFeed,
       LineFeed, RememberedFactsSectionHeader, LineFeed, OldBullet, LineFeed>>}

InitMem ==
    /\ memory_file \in InitialFiles
    /\ mem_lock = 0
    /\ mem_proc \in {f \in [Appenders -> UNION {CallsOf(p) : p \in Appenders}] :
                        \A p \in Appenders : f[p] \in CallsOf(p)}
    /\ fs_roots = <<>>
    /\ mgr_call = NoCall
    /\ src_input = <<>>
    /\ src_parsed = None
    /\ hub = None

\* a lock that every caller passes
CanLockAlways(p) == TRUE

\* MEMORY_FILE_LOCK.lock() returns only while no other thread holds the guard
CanLock(p) == mem_lock = 0

\* facts.is_empty(): the call returns before it takes the lock
MemEarlyReturn(p) ==
    /\ mem_proc[p].pc = "start"
    /\ mem_proc[p].facts = <<>>
    /\ mem_proc' = [mem_proc EXCEPT ![p].pc = "done"]
    /\ UNCHANGED <<fs_roots, mgr_call, memory_file, mem_lock, src_input, src_parsed, hub>>

\* let _guard = MEMORY_FILE_LOCK.lock()
MemLock(p) ==
    /\ mem_proc[p].pc = "start"
    /\ mem_proc[p].facts # <<>>
    /\ CanLock(p)
    /\ mem_lock' = p
    /\ mem_proc' = [mem_proc EXCEPT ![p].pc = "locked"]
    /\ UNCHANGED <<fs_roots, mgr_call, memory_file, src_input, src_parsed, hub>>

\* fs::read_to_string(&self.memory_file).unwrap_or_default()
MemRead(p) ==
    /\ mem_proc[p].pc = "locked"
    /\ mem_proc' = [mem_proc EXCEPT ![p].pc = "read", ![p].existing = memory_file]
    /\ UNCHANGED <<fs_roots, mgr_call, memory_file, mem_lock, src_input, src_parsed, hub>>

\* fs::File::create truncates the file
MemCreate(p) ==
    /\ mem_proc[p].pc = "read"
    /\ memory_file' = <<>>
    /\ mem_proc' = [mem_proc EXCEPT ![p].pc = "created"]
    /\ UNCHANGED <<fs_roots, mgr_call, mem_lock, src_input, src_parsed, hub>>

\* file.write_all(updated.as_bytes())
MemWrite(p) ==
    /\ mem_proc[p].pc = "created"
    /\ memory_file' = UpdatedBy(mem_proc[p])
    /\ mem_proc' = [mem_proc EXCEPT ![p].pc = "written", ![p].trimmed = TrimFires(mem_proc[p])]
    /\ UNCHANGED <<fs_roots, mgr_call, mem_lock, src_input, src_parsed, hub>>

\* the call returns and the guard is dropped
MemReturn(p) ==
    /\ mem_proc[p].pc = "written"
    /\ mem_lock' = 0
    /\ mem_proc' = [mem_proc EXCEPT ![p].pc = "done"]
    /\ UNCHANGED <<fs_roots, mgr_call, memory_file, src_input, src_parsed, hub>>

NextMem ==
    \/ \E p \in Appenders : MemEarlyReturn(p)
    \/ \E p \in Appenders : MemLock(p)
    \/ \E p \in Appenders : MemRead(p)
    \/ \E p \in Appenders : MemCreate(p)
    \/ \E p \in Appenders : MemWrite(p)
    \/ \E p \in Appenders : MemReturn(p)

SpecMem == InitMem /\ [][NextMem]_vars

-----------------------------------------------------------------------------
(* read_long_term while other threads append *)

\* a call of read_long_term that has not started
NewReadCall ==
    [op |-> "read_long_term", pc |-> "start", returned_before |-> {}, guard_holder |-> 0,
     content |-> <<>>]

InitMemRead ==
    /\ memory_file \in InitialFiles
    /\ mem_lock = 0
    /\ mem_proc \in {f \in [Appenders -> UNION {CallsOf(p) : p \in Appenders}] :
                        \A p \in Appenders : f[p] \in CallsOf(p)}
    /\ fs_roots = <<>>
    /\ mgr_call = NoCall
    /\ src_input = <<>>
    /\ src_parsed = None
    /\ hub = NewReadCall

\* fs::read_to_string(&self.memory_file).unwrap_or_default(), with no guard
\* taken: the call may read whenever it is scheduled.  It notes which appends
\* had returned when it started and which thread held the guard.
MemReadLongTerm ==
    /\ hub.pc = "start"
    /\ hub' = [hub EXCEPT !.pc = "done",
                          !.returned_before = {p \in Appenders : mem_proc[p].pc = "done"},
                          !.guard_holder = mem_lock,
                          !.content = memory_file]
    /\ UNCHANGED <<fs_roots, mgr_call, memory_file, mem_lock, mem_proc, src_input, src_parsed>>

NextMemRead ==
    \/ \E p \in Appenders : MemEarlyReturn(p)
    \/ \E p \in Appenders : MemLock(p)
    \/ \E p \in Appenders : MemRead(p)
    \/ \E p \in Appenders : MemCreate(p)
    \/ \E p \in Appenders : MemWrite(p)
    \/ \E p \in Appenders : MemReturn(p)
    \/ MemReadLongTerm

SpecMemRead == InitMemRead /\ [][NextMemRead]_vars

-----------------------------------------------------------------------------
(* The skill hub's source strings: src/skills/hub/source.rs *)

\* the characters of a string literal
Chars(str) == [i \in 1..Len(str) |-> SubSeq(str, i, i)]

\* str::starts_with
StartsWith(s, prefix) == Len(s) >= Len(prefix) /\ SubSeq(s, 1, Len(prefix)) = prefix

\* str::ends_with
EndsWith(s, suffix) ==
    Len(s) >= Len(suffix) /\ SubSeq(s, Len(s) - Len(suffix) + 1, Len(s)) = suffix

\* str::contains
Contains(s, sub) == \E i \in 1..(Len(s) - Len(sub) + 1) : SubSeq(s, i, i + Len(sub) - 1) = sub

\* str::rfind of a character: its last position, or 0
RFind(s, c) ==
    LET hits == {i \in 1..Len(s) : s[i] = c}
    IN  IF hits = {} THEN 0 ELSE CHOOSE i \in hits : \A j \in hits : j <= i

RECURSIVE SplitOn(_, _, _, _)
SplitOn(s, sep, start, i) ==
    IF i > Len(s) THEN <<SubSeq(s, start, Len(s))>>
    ELSE IF s[i] = sep THEN <<SubSeq(s, start, i - 1)>> \o SplitOn(s, sep, i + 1, i + 1)
    ELSE SplitOn(s, sep, start, i + 1)

\* str::split(sep)
Split(s, sep) == Let(s, LAMBDA v : SplitOn(v, sep, 1, 1))

\* .filter(|part| !part.is_empty())
NonEmpty(segments) == SelectSeq(segments, LAMBDA part : part # <<>>)

RECURSIVE JoinFrom(_, _, _)
JoinFrom(segments, i, sep) ==
    IF i > Len(segments) THEN <<>>
    ELSE IF i = Len(segments) THEN segments[i]
    ELSE segments[i] \o <<sep>> \o JoinFrom(segments, i + 1, sep)

\* segments[from..].join(sep)
Join(segments, from, sep) == Let(segments, LAMBDA v : JoinFrom(v, from, sep))

RECURSIVE TrimEndMatches(_, _)
\* str::trim_end_matches: every repetition of the suffix is removed
TrimEndMatches(s, suffix) ==
    IF EndsWith(s, suffix) THEN TrimEndMatches(SubSeq(s, 1, Len(s) - Len(suffix)), suffix)
    ELSE s

\* Path::is_absolute on the platform of the model (unix)
IsAbsolute(input) == StartsWith(input, <<"/">>)

\* a test that only knows absolute paths
IsLocalPathAbsoluteOnly(input) == IsAbsolute(input)

IsLocalPath(input) ==
    \/ IsAbsolute(input)
    \/ StartsWith(input, <<".", "/">>)
    \/ StartsWith(input, <<".", ".", "/">>)
    \/ input = <<".">>
    \/ input = <<".", ".">>

GithubHttps == Chars("https://github.com/")
GithubHttp == Chars("http://github.com/")

\* format!("https://github.com/{owner}/{repo}.git")
GithubGitUrl(owner, repo) == GithubHttps \o owner \o <<"/">> \o repo \o Chars(".git")

\* a parser that knows no shorthand
NoShorthand(source) == None

\* owner/repo[/sub/path][@filter]; None when the source does not have the shape
ParseOwnerRepoSource(source) ==
    IF Contains(source, Chars("://")) \/ StartsWith(source, Chars("git@")) THEN None
    ELSE LET index == RFind(source, "@")
             repo_and_path == IF index > 1 THEN SubSeq(source, 1, index - 1) ELSE source
             raw == IF index > 1 THEN Trim(SubSeq(source, index + 1, Len(source))) ELSE <<>>
         IN  Let(NonEmpty(Split(repo_and_path, "/")), LAMBDA segments :
                 IF Len(segments) < 2 THEN None
                 ELSE IF \/ StartsWith(segments[1], <<".">>)
                         \/ StartsWith(segments[2], <<".">>)
                         \/ "." \in Range(segments[1])
                 THEN None
                 ELSE Some([original |-> source,
                            git_url |-> Some(GithubGitUrl(segments[1], segments[2])),
                            local_path |-> None,
                            ref_name |-> None,
                            subpath |-> IF Len(segments) > 2 THEN Some(Join(segments, 3, "/"))
                                        ELSE None,
                            skill_filter |-> IF raw # <<>> THEN Some(raw) ELSE None]))

RECURSIVE PercentEncodeFrom(_, _)
PercentEncodeFrom(segment, i) ==
    IF i > Len(segment) THEN <<>>
    ELSE (IF segment[i] = SP THEN <<"%", "2", "0">> ELSE <<segment[i]>>)
         \o PercentEncodeFrom(segment, i + 1)

RECURSIVE UrlPath(_, _, _)
\* the path of the parsed URL: "." segments are dropped, a ".." segment
\* removes the segment before it, a space is percent-encoded
UrlPath(raw, i, out) ==
    IF i > Len(raw) THEN out
    ELSE IF raw[i] = <<".", ".">>
    THEN UrlPath(raw, i + 1,
                 (IF out = <<>> THEN out ELSE SubSeq(out, 1, Len(out) - 1))
                 \o (IF i = Len(raw) THEN << <<>> >> ELSE <<>>))
    ELSE IF raw[i] = <<".">>
    THEN UrlPath(raw, i + 1, out \o (IF i = Len(raw) THEN << <<>> >> ELSE <<>>))
    ELSE UrlPath(raw, i + 1, Append(out, PercentEncodeFrom(raw[i], 1)))

\* Url::parse(source).path_segments() of a source that starts with `prefix`,
\* a scheme and host that end in "/"; the sources of the model hold no query,
\* fragment, backslash or percent sign
PathSegments(source, prefix) ==
    Let(Split(SubSeq(source, Len(prefix) + 1, Len(source)), "/"), LAMBDA raw :
        UrlPath(raw, 1, <<>>))

\* https://github.com/owner/repo[.git][/tree/ref[/sub/path]]
ParseGithubUrlSource(source) ==
    IF ~(StartsWith(source, GithubHttps) \/ StartsWith(source, GithubHttp)) THEN None
    ELSE Let(NonEmpty(PathSegments(source, IF StartsWith(source, GithubHttps)
                                           THEN GithubHttps ELSE GithubHttp)),
             LAMBDA segments :
                 IF Len(segments) < 2 THEN None
                 ELSE LET has_ref == Len(segments) >= 4 /\ segments[3] = Chars("tree")
                      IN  Some([original |-> source,
                                git_url |-> Some(GithubGitUrl(segments[1],
                                                 TrimEndMatches(segments[2], Chars(".git")))),
                                local_path |-> None,
                                ref_name |-> IF has_ref THEN Some(segments[4]) ELSE None,
                                subpath |-> IF has_ref /\ Len(segments) > 4
                                            THEN Some(Join(segments, 5, "/")) ELSE None,
                                skill_filter |-> None]))

\* the ParsedSource of a local path, and of any other git URL
LocalSource(trimmed) ==
    [original |-> trimmed, git_url |-> None, local_path |-> Some(trimmed),
     ref_name |-> None, subpath |-> None, skill_filter |-> None]

PlainGitSource(trimmed) ==
    [original |-> trimmed, git_url |-> Some(trimmed), local_path |-> None,
     ref_name |-> None, subpath |-> None, skill_filter |-> None]

ParseSource(source) ==
    Let(Trim(source), LAMBDA trimmed :
        IF trimmed = <<>> THEN [ok |-> FALSE, err |-> "source cannot be empty"]
        ELSE IF IsLocalPath(trimmed) THEN [ok |-> TRUE, parsed |-> LocalSource(trimmed)]
        ELSE Let(ParseOwnerRepoSource(trimmed), LAMBDA shorthand :
                 IF shorthand.some THEN [ok |-> TRUE, parsed |-> shorthand.val]
                 ELSE Let(ParseGithubUrlSource(trimmed), LAMBDA github :
                          IF github.some THEN [ok |-> TRUE, parsed |-> github.val]
                          ELSE [ok |-> TRUE, parsed |-> PlainGitSource(trimmed)])))

(* Calls of parse_source *)

\* the pieces a source string of the model is made of, at most
MaxPieces == 4

SourcePrefixes == {"", "https://github.com/", "http://github.com/", "git@", "https://x/"}

SourcePieces == {"o/r", "/tree/m", "/", "a", ".git", "@", ".", " "}

RECURSIVE Tails(_)
Tails(n) ==
    IF n = 0 THEN {<<>>}
    ELSE LET shorter == Tails(n - 1)
         IN  shorter \cup {t \o Chars(piece) : t \in shorter, piece \in SourcePieces}

\* the source of the test of the shorthand
TestSource == "vercel-labs/agent-skills@web-design"

Sources ==
    {Chars(prefix) \o t : prefix \in SourcePrefixes, t \in Tails(MaxPieces)}
    \cup {Chars(TestSource)}

InitParse ==
    /\ src_input \in Sources
    /\ src_parsed = None
    /\ fs_roots = <<>>
    /\ mgr_call = NoCall
    /\ memory_file = <<>>
    /\ mem_lock = 0
    /\ mem_proc = <<>>
    /\ hub = None

\* parse_source(source)
ParseSourceCall ==
    /\ src_parsed = None
    /\ src_parsed' = Some(ParseSource(src_input))
    /\ UNCHANGED <<fs_roots, mgr_call, memory_file, mem_lock, mem_proc, src_input, hub>>

NextParse == ParseSourceCall

SpecParse == InitParse /\ [][NextParse]_vars

-----------------------------------------------------------------------------
(* The skill hub: src/skills/hub/install.rs, source.rs and mod.rs *)

SkillFileName == "SKILL.md"

\* the characters sanitize_name keeps
IsNameChar(ch) == ch \in Range(LowerChars) \cup Range(DigitChars) \cup {".", "_"}

RECURSIVE SanitizeEachChar(_, _, _)
\* a loop that puts a '-' for every character it does not keep
SanitizeEachChar(lower, i, previous_dash) ==
    IF i > Len(lower) THEN <<>>
    ELSE (IF IsNameChar(lower[i]) THEN <<lower[i]>> ELSE <<"-">>)
         \o SanitizeEachChar(lower, i + 1, FALSE)

RECURSIVE SanitizeFrom(_, _, _)
\* the loop of sanitize_name over lower.chars()
SanitizeFrom(lower, i, previous_dash) ==
    IF i > Len(lower) THEN <<>>
    ELSE IF IsNameChar(lower[i]) THEN <<lower[i]>> \o SanitizeFrom(lower, i + 1, FALSE)
    ELSE (IF previous_dash THEN <<>> ELSE <<"-">>) \o SanitizeFrom(lower, i + 1, TRUE)

\* sanitized.chars().take(255)
MaxNameChars == 255

RECURSIVE SanitizePieces(_, _)
\* the loop over the whole text, run piece by piece from position `start`:
\* at the start of a piece previous_dash is what the character before it
\* left, TRUE after a character that is not kept
SanitizePieces(lower, start) ==
    IF start > Len(lower) THEN <<>>
    ELSE SanitizeFrom(SubSeq(lower, start,
                             IF start + 31 < Len(lower) THEN start + 31 ELSE Len(lower)),
                      1, start > 1 /\ ~IsNameChar(lower[start - 1]))
         \o SanitizePieces(lower, start + 32)

\* sanitize_name
SanitizeName(name) ==
    Let(TrimEndIn(TrimStartIn(SanitizePieces(ToAsciiLowercase(name), 1), {".", "-"}),
                  {".", "-"}),
        LAMBDA sanitized :
            IF sanitized = <<>> THEN Chars("unnamed-skill")
            ELSE SubSeq(sanitized, 1, IF Len(sanitized) < MaxNameChars THEN Len(sanitized)
                                      ELSE MaxNameChars))

RECURSIVE Decimal(_)
\* format!("{index}")
Decimal(n) ==
    IF n < 10 THEN <<DigitChars[n + 1]>>
    ELSE Decimal(n \div 10) \o <<DigitChars[(n % 10) + 1]>>

\* a pick that takes the first candidate without looking at the names in use
PickCandidateOnce(base, used_names, index) ==
    [install_name |-> base \o <<"-">> \o Decimal(index),
     used_names |-> used_names \cup {base \o <<"-">> \o Decimal(index)}]

RECURSIVE PickCandidate(_, _, _)
\* the loop of pick_unique_install_name over index = 2, 3, ...
PickCandidate(base, used_names, index) ==
    Let(base \o <<"-">> \o Decimal(index), LAMBDA candidate :
        IF candidate \notin used_names
        THEN [install_name |-> candidate, used_names |-> used_names \cup {candidate}]
        ELSE PickCandidate(base, used_names, index + 1))

\* a pick that takes the base name whether or not it is used
PickBaseName(base, used_names) ==
    [install_name |-> base, used_names |-> used_names \cup {base}]

\* pick_unique_install_name: the name it returns and the set it leaves
PickUniqueInstallName(base, used_names) ==
    IF base \notin used_names
    THEN [install_name |-> base, used_names |-> used_names \cup {base}]
    ELSE PickCandidate(base, used_names, 2)

\* one line of str::lines from a chunk of split_inclusive: the LF, and a CR
\* before it, are removed
StripLineEnd(chunk) ==
    IF chunk # <<>> /\ chunk[Len(chunk)] = LF
    THEN LET line == SubSeq(chunk, 1, Len(chunk) - 1)
         IN  IF line # <<>> /\ line[Len(line)] = CR THEN SubSeq(line, 1, Len(line) - 1)
             ELSE line
    ELSE chunk

\* str::lines
Lines(markdown) ==
    Let(SplitInclusive(markdown), LAMBDA chunks :
        [i \in 1..Len(chunks) |-> StripLineEnd(chunks[i])])

RECURSIVE HubFindClose(_, _, _)
\* the loop of parse_frontmatter over the lines after the first: the YAML
\* text before the first line that trims to "---"
HubFindClose(lines, i, yaml) ==
    IF i > Len(lines) THEN None
    ELSE IF Trim(lines[i]) = <<"---">> THEN Some(yaml)
    ELSE HubFindClose(lines, i + 1, yaml \o lines[i] \o <<LF>>)

\* serde_yaml::from_str::<hub::SkillFrontmatter>: the struct has the one field
\* `name`, other keys are read and ignored; the model's manifests repeat no key
HubSerdeYaml(yaml) ==
    Let(YamlEntries(yaml), LAMBDA entries :
        LET ok == /\ \A i \in 1..Len(entries) :
                        Len(entries[i]) = 1 /\ entries[i][1] \in YamlLines
                  /\ \A i, j \in 1..Len(entries) :
                        i # j => YamlKey(entries[i][1]) # YamlKey(entries[j][1])
            names == {i \in 1..Len(entries) : YamlKey(entries[i][1]) = "name"}
        IN  IF ~ok THEN None
            ELSE Some([name |-> IF names = {} THEN None
                                ELSE Some(YamlValue(entries[CHOOSE i \in names : TRUE][1]))]))

\* the YAML text hub parse_frontmatter hands to serde_yaml, None when it
\* returns before
HubYamlBlock(markdown) ==
    Let(Lines(markdown), LAMBDA lines :
        IF lines = <<>> THEN None
        ELSE IF Trim(lines[1]) # <<"---">> THEN None
        ELSE Let(HubFindClose(lines, 2, <<>>), LAMBDA yaml :
                 IF ~yaml.some THEN None
                 ELSE IF Trim(yaml.val) = <<>> THEN None
                 ELSE yaml))

\* hub parse_frontmatter
ParseFrontmatter(markdown) ==
    Let(Lines(markdown), LAMBDA lines :
        IF lines = <<>> THEN None
        ELSE IF Trim(lines[1]) # <<"---">> THEN None
        ELSE Let(HubFindClose(lines, 2, <<>>), LAMBDA yaml :
                 IF ~yaml.some THEN None
                 ELSE IF Trim(yaml.val) = <<>> THEN None
                 ELSE HubSerdeYaml(yaml.val)))

\* read_skill_name of a SKILL.md that can be read
ReadSkillName(content) ==
    Let(ParseFrontmatter(content), LAMBDA fm :
        IF fm.some /\ fm.val.name.some THEN Some(Trim(fm.val.name.val)) ELSE None)

RECURSIVE Str(_)
\* the string of a sequence of characters
Str(chars) == IF chars = <<>> THEN "" ELSE Head(chars) \o Str(Tail(chars))

\* Path::components of a path given as text: an absolute path starts with
\* the root component, "." components after the first are dropped
Components(path) ==
    Let(NonEmpty(Split(path, "/")), LAMBDA segments :
        (IF IsAbsolute(path) THEN <<"/">> ELSE <<>>)
        \o SelectSeq([i \in 1..Len(segments) |-> Str(segments[i])], LAMBDA c : c # "."))

\* Path::file_name: the last component, unless it is the root or ".."
FileName(path) ==
    IF path = <<>> \/ path[Len(path)] \in {"/", ".."} THEN None ELSE Some(path[Len(path)])

\* A directory tree is a function from the paths of its files, relative to
\* the root of the tree, to [kind, text]; its directories are the proper
\* prefixes of those paths.

\* Path::exists of the directory `dir` of a tree whose root exists
DirExists(tree, dir) ==
    dir = <<>> \/ \E f \in DOMAIN tree : Len(f) > Len(dir) /\ StartsWith(f, dir)

\* Path::is_file
IsFile(tree, path) == path \in DOMAIN tree

\* the directory names should_descend_into_dir rejects
DeniedDirNames ==
    {".git", "node_modules", "dist", "build", "__pycache__", "target", ".venv", "venv"}

\* should_descend_into_dir of a directory entry
ShouldDescendIntoDir(name) == name \notin DeniedDirNames

\* the directories discover_skills finds in `tree`, by path from the root of
\* the tree: the search root when it holds SKILL.md, and every directory with
\* SKILL.md that the filtered walk reaches (the filter sees the search root
\* too).  is_file() of the search root follows a symbolic link, the walk with
\* follow_links(false) does not take a link for a file.
FoundDirs(tree, source_root, search_root) ==
    LET below == Len(search_root) - Len(source_root)
        sub == SubSeq(search_root, Len(source_root) + 1, Len(search_root))
        root_name == FileName(search_root)
        holders == {SubSeq(f, 1, Len(f) - 1) :
                       f \in {g \in DOMAIN tree :
                                 /\ g[Len(g)] = SkillFileName
                                 /\ StartsWith(g, sub)
                                 /\ tree[g].kind = "file" \/ Len(g) = Len(sub) + 1}}
    IN  {d \in holders :
            \/ d = sub
            \/ /\ root_name.some => ShouldDescendIntoDir(root_name.val)
               /\ \A i \in (below + 1)..Len(d) : ShouldDescendIntoDir(d[i])}

\* the orders in which discover_skills may return the found directories: the
\* search root first, the others in the order of the walk, which follows
\* read_dir.  The skill directories of the model's trees lie in different
\* subtrees, so every order of them is the order of some walk.
FoundOrders(tree, source_root, search_root) ==
    Let(FoundDirs(tree, source_root, search_root), LAMBDA found :
        LET n == Cardinality(found)
            sub == SubSeq(search_root, Len(source_root) + 1, Len(search_root))
        IN  {order \in [1..n -> found] :
                /\ \A i, j \in 1..n : i # j => order[i] # order[j]
                /\ sub \in found => order[1] = sub})

\* the DiscoveredSkill of a found directory
Discovered(tree, source_root, d) ==
    [dir |-> source_root \o d, name |-> ReadSkillName(tree[d \o <<SkillFileName>>].text)]

\* one filter of normalize_filters: the text after the last '@', trimmed and
\* lowercased
NormalizeFilter(raw) ==
    Let(Trim(raw), LAMBDA trimmed :
        LET at == RFind(trimmed, "@")
        IN  ToAsciiLowercase(Trim(IF at = 0 THEN trimmed
                                  ELSE SubSeq(trimmed, at + 1, Len(trimmed)))))

\* normalize_filters
NormalizeFilters(filters) ==
    Let(SelectSeq(filters, LAMBDA raw : Trim(raw) # <<>>), LAMBDA kept :
        [i \in 1..Len(kept) |-> NormalizeFilter(kept[i])])

\* skill.dir.file_name().and_then(to_str).unwrap_or(default)
DirNameOr(dir, default) == IF FileName(dir).some THEN FileName(dir).val ELSE default

\* filter_discovered_skills
FilterDiscoveredSkills(skills, filters) ==
    Let(NormalizeFilters(filters), LAMBDA needles :
        IF needles = <<>> \/ <<"*">> \in Range(needles) THEN skills
        ELSE SelectSeq(skills, LAMBDA skill :
                 \E i \in 1..Len(needles) :
                     \/ needles[i] = ToAsciiLowercase(Chars(DirNameOr(skill.dir, "")))
                     \/ needles[i] = ToAsciiLowercase(Trim(IF skill.name.some
                                                           THEN skill.name.val ELSE <<>>))))

\* the base name install_from_skills_source derives for a selected skill
BaseName(skill) ==
    IF skill.name.some /\ SanitizeName(skill.name.val) # <<>>
    THEN SanitizeName(skill.name.val)
    ELSE SanitizeName(Chars(DirNameOr(skill.dir, "skill")))

EmptyDir == <<>>

\* a target preparation that keeps the directory it finds
PrepareKeepsTarget(root, install_name, force) ==
    IF install_name \in DOMAIN root /\ ~force
    THEN [ok |-> FALSE, root |-> root]
    ELSE [ok |-> TRUE,
          root |-> IF install_name \in DOMAIN root THEN root
                   ELSE MapInsert(root, install_name, EmptyDir)]

\* prepare_install_target on skills_root/install_name: an existing target is
\* an error without force and is removed with it; then the directory is made
PrepareInstallTarget(root, install_name, force) ==
    IF install_name \in DOMAIN root /\ ~force
    THEN [ok |-> FALSE, root |-> root]
    ELSE [ok |-> TRUE, root |-> MapInsert(root, install_name, EmptyDir)]

\* what copy_directory copies from the directory d of the tree: its regular
\* files at any depth, by path from d; symlinks are skipped
CopiedFiles(tree, d) ==
    LET files == {f \in DOMAIN tree :
                     Len(f) > Len(d) /\ StartsWith(f, d) /\ tree[f].kind = "file"}
    IN  [rel \in {SubSeq(f, Len(d) + 1, Len(f)) : f \in files} |-> tree[d \o rel]]

\* copy_directory into a target that holds `target`: files of the same path
\* are overwritten, the others stay
CopyDirectory(tree, d, target) ==
    Let(<<CopiedFiles(tree, d), target>>, LAMBDA v :
        [f \in DOMAIN v[1] \cup DOMAIN v[2] |-> IF f \in DOMAIN v[1] THEN v[1][f] ELSE v[2][f]])

\* the path of request.skills_root
SkillsRootPath == <<"/", "skills">>

\* skills_root.join(install_name)
TargetDir(install_name) == SkillsRootPath \o <<Str(install_name)>>

\* Path::join: an absolute path replaces the base
JoinPath(base, rel) == IF rel # <<>> /\ rel[1] = "/" THEN rel ELSE base \o rel

\* is_safe_relative_path: no component is the parent directory or the root
IsSafeRelativePath(path) == \A i \in 1..Len(path) : path[i] \notin {"..", "/"}

\* the paths of the entries that the walk of copy_directory meets below the
\* directory d of the tree, from d: the files and the directories above them
WalkedBelow(tree, d) ==
    UNION {{SubSeq(f, Len(d) + 1, k) : k \in (Len(d) + 1)..Len(f)} :
              f \in {g \in DOMAIN tree : Len(g) > Len(d) /\ StartsWith(g, d)}}

\* the paths copy_directory creates or writes in target_dir: the directories
\* of the source and its regular files, at target.join(relative)
CopyWrites(tree, d, target_dir) ==
    {JoinPath(target_dir, relative) :
        relative \in {r \in WalkedBelow(tree, d) :
                         d \o r \in DOMAIN tree => tree[d \o r].kind = "file"}}

\* a check that passes every directory
EnsureAnyDir(dir) == TRUE

\* ensure_skill_md_exists
EnsureSkillMdExists(dir) == IsFile(dir, <<SkillFileName>>)

RECURSIVE PathText(_)
\* Path::as_os_str: the components joined by "/"
PathText(path) ==
    IF path = <<>> THEN ""
    ELSE IF Len(path) = 1 THEN path[1]
    ELSE IF path[1] = "/" THEN "/" \o PathText(Tail(path))
    ELSE path[1] \o "/" \o PathText(Tail(path))

\* the comparison of list_from_skills_source: by name, a missing name being
\* "", then by directory
ListedBefore(a, b) ==
    LET a_name == IF a.name.some THEN a.name.val ELSE <<>>
        b_name == IF b.name.some THEN b.name.val ELSE <<>>
    IN  \/ StrLess(a_name, b_name)
        \/ a_name = b_name /\ StrLess(Chars(PathText(a.dir)), Chars(PathText(b.dir)))

RECURSIVE SortListed(_)
\* discovered.sort_by(..) of entries with distinct directories
SortListed(set) ==
    Let(set, LAMBDA v :
        IF v = {} THEN <<>>
        ELSE Let(CHOOSE s \in v : \A t \in v \ {s} : ListedBefore(s, t),
                 LAMBDA least : <<least>> \o SortListed(v \ {least})))

\* the Vec<SourceSkill> list_from_skills_source returns
SourceSkills(discovered) ==
    Let(SortListed(Range(discovered)), LAMBDA sorted :
        [i \in 1..Len(sorted) |-> [directory |-> DirNameOr(sorted[i].dir, ""),
                                   name |-> sorted[i].name]])

(* One call of install_from_skills_source or list_from_skills_source *)

\* most skill directories a source tree holds
MaxSkills == 3

\* the directories of a source tree that may hold a skill: the root of the
\* tree, two directories named "a" and one whose name ends in "-2"
SkillPaths == {<<>>, <<"a">>, <<"x", "a">>, <<"a-2">>}

\* the SKILL.md files of the sources: a manifest whose gates pass here, one
\* that is for another platform, and one without frontmatter
GoodManifest == Manifest("name: a", 2, <<"platforms: [macOS, Linux]", "deps: [sh]">>)
GatedManifest == Manifest("name: a", 2, <<"platforms: [windows]", "deps: [sh]">>)
PlainManifest == <<"Instructions", LF>>

\* the SKILL.md files the directory d of a source may hold
ManifestsAt(d) ==
    CASE d = <<>> -> {GoodManifest}
      [] d = <<"a">> -> {GoodManifest, GatedManifest, PlainManifest}
      [] d = <<"x", "a">> -> {GoodManifest, PlainManifest}
      [] OTHER -> {PlainManifest}

RegularFile(text) == [kind |-> "file", text |-> text]

\* the trees of the sources: up to MaxSkills skill directories, each with a
\* SKILL.md; the directory "a" holds a second file
SourceTrees ==
    UNION {{[f \in {d \o <<SkillFileName>> : d \in dirs}
                   \cup (IF <<"a">> \in dirs THEN {<<"a", "notes.md">>} ELSE {})
               |-> IF f = <<"a", "notes.md">> THEN RegularFile(<<"notes">>)
                   ELSE RegularFile(md[SubSeq(f, 1, Len(f) - 1)])] :
              md \in {m \in [dirs -> UNION {ManifestsAt(d) : d \in dirs}] :
                         \A d \in dirs : m[d] \in ManifestsAt(d)}} :
           dirs \in {s \in SUBSET SkillPaths : Cardinality(s) <= MaxSkills}}

\* a symbolic link to a regular file that holds `text`
SymlinkFile(text) == [kind |-> "symlink", text |-> text]

\* trees whose root has a SKILL.md that is a symbolic link to a manifest,
\* alone or beside the skill directory "a"
SymlinkTrees ==
    {[f \in {<<SkillFileName>>} \cup more |->
         IF f = <<SkillFileName>> THEN SymlinkFile(GoodManifest)
         ELSE RegularFile(GoodManifest)] : more \in {{}, {<<"a", SkillFileName>>}}}

\* trees whose root is a skill that gives no name, alone or beside the skill
\* directory "a"
NamelessRootTrees ==
    {[f \in {<<SkillFileName>>} \cup more |->
         IF f = <<SkillFileName>> THEN RegularFile(PlainManifest)
         ELSE RegularFile(GoodManifest)] : more \in {{}, {<<"a", SkillFileName>>}}}

\* the directory names tempdir() may pick
TempNames == {".tmpA1b2C3", ".tmpx9Y8z7"}

\* the path of a directory that tempdir() made
TempPath(name) == <<"/", "tmp", name>>

\* the skills root before the call: empty, or with a skill installed as "a"
OldSkillDir ==
    [f \in {<<SkillFileName>>, <<"old.txt">>} |->
        IF f = <<"old.txt">> THEN RegularFile(<<"old">>)
        ELSE RegularFile(Manifest("name: a", 1, <<"deps: [sh]">>))]

\* the source strings of the requests
RequestSources == {" ", "/src", "/build", "o/r", "o/r/x", "o/r@a"}

\* the requests to install: every source into an empty root and, without and
\* with force, into the root that holds "a"; one request with a filter of its
\* own
InstallRequests ==
    {[op |-> "install_from_skills_source", source |-> Chars(s), force |-> c[1],
      skill_filters |-> <<>>, skills_root |-> c[2]] :
        s \in RequestSources,
        c \in {<<FALSE, <<>> >>} \cup {<<f, [n \in {<<"a">>} |-> OldSkillDir]>> : f \in BOOLEAN}}
    \cup {[op |-> "install_from_skills_source", source |-> Chars("/src"), force |-> TRUE,
           skill_filters |-> <<Chars(" A-2 "), <<SP>> >>, skills_root |-> <<>>]}

\* the requests to list take a source only
ListRequests ==
    {[op |-> "list_from_skills_source", source |-> Chars(s), force |-> FALSE,
      skill_filters |-> <<>>, skills_root |-> <<>>] : s \in RequestSources}

Requests == InstallRequests \cup ListRequests

\* a call that has not started, on a source whose directory or repository
\* holds `tree`
NewCall(request, tree) ==
    [op |-> request.op, source |-> request.source, force |-> request.force,
     skill_filters |-> request.skill_filters, tree |-> tree,
     skills_root |-> request.skills_root, before |-> request.skills_root,
     pc |-> "start", parsed |-> None, temp_guard |-> None, temp_created |-> FALSE,
     temp_exists |-> FALSE, source_root |-> <<>>, discovered |-> None, selected |-> <<>>,
     used_names |-> {},
     installed |-> <<>>, checked |-> 0, written |-> {}, result |-> None]

InitInstall ==
    /\ hub \in {NewCall(request, tree) :
                   request \in Requests,
                   tree \in SourceTrees \cup SymlinkTrees \cup NamelessRootTrees}
    /\ fs_roots = <<>>
    /\ mgr_call = NoCall
    /\ memory_file = <<>>
    /\ mem_lock = 0
    /\ mem_proc = <<>>
    /\ src_input = <<>>
    /\ src_parsed = None

Ok(value) == [ok |-> TRUE, err |-> "", value |-> value]

\* an error and the path or names its message holds
Err(message, detail) == [ok |-> FALSE, err |-> message, value |-> detail]

\* a return that leaves the temporary directory on disk
ReturnLeaking(call, result) ==
    [call EXCEPT !.pc = "done", !.result = Some(result), !.temp_guard = None]

\* a return that, on an error, puts the skills root back as the call found it
ReturnRollingBack(call, result) ==
    [call EXCEPT !.pc = "done", !.result = Some(result), !.temp_guard = None,
                 !.temp_exists = FALSE,
                 !.skills_root = IF result.ok THEN call.skills_root ELSE call.before]

\* the call returns: temp_guard goes out of scope, and dropping a TempDir
\* removes its directory
Return(call, result) ==
    [call EXCEPT !.pc = "done", !.result = Some(result), !.temp_guard = None,
                 !.temp_exists = FALSE]

\* parse_source, ensure_dir, and the creation of temp_guard
Begin(call, temp_name) ==
    Let(ParseSource(call.source), LAMBDA parsed :
        IF ~parsed.ok THEN Return(call, Err(parsed.err, <<>>))
        ELSE IF parsed.parsed.local_path.some
        THEN [call EXCEPT !.pc = "source", !.parsed = Some(parsed.parsed)]
        ELSE [call EXCEPT !.pc = "source", !.parsed = Some(parsed.parsed),
                          !.temp_guard = Some(temp_name), !.temp_created = TRUE,
                          !.temp_exists = TRUE])

\* source_root: the local path, or the temporary directory after clone_repo
PrepareSource(call, clone_ok) ==
    IF call.parsed.val.local_path.some
    THEN [call EXCEPT !.pc = "search",
                      !.source_root = Components(call.parsed.val.local_path.val)]
    ELSE IF call.temp_guard.some
    THEN IF clone_ok
         THEN [call EXCEPT !.pc = "search", !.source_root = TempPath(call.temp_guard.val)]
         ELSE Return(call, Err("git clone failed", call.parsed.val.git_url.val))
    ELSE Return(call, Err("failed to prepare source directory", <<>>))

\* source_root.join(subpath)
SearchRoot(call) ==
    call.source_root
    \o (IF call.parsed.val.subpath.some THEN Components(call.parsed.val.subpath.val)
        ELSE <<>>)

\* a path below source_root, from the root of the tree
InTree(call, path) == SubSeq(path, Len(call.source_root) + 1, Len(path))

\* the filters of the request, trimmed and not empty, then the filter of the source
MergedFilters(call) ==
    SelectSeq([i \in 1..Len(call.skill_filters) |-> Trim(call.skill_filters[i])],
              LAMBDA f : f # <<>>)
    \o (IF call.parsed.val.skill_filter.some THEN <<call.parsed.val.skill_filter.val>>
        ELSE <<>>)

\* from the search root to the selected skills (install) or the result (list);
\* `order` is the order in which discover_skills found the directories
Search(call, order) ==
    IF ~DirExists(call.tree, InTree(call, SearchRoot(call)))
    THEN Return(call, Err("source subpath does not exist", SearchRoot(call)))
    ELSE Let([i \in 1..Len(order) |-> Discovered(call.tree, call.source_root, order[i])],
             LAMBDA discovered :
                 Let([call EXCEPT !.discovered = Some(discovered)], LAMBDA found :
                     IF discovered = <<>>
                     THEN Return(found, Err("no SKILL.md files found in source", call.source))
                     ELSE IF call.op = "list_from_skills_source"
                     THEN Return(found, Ok(SourceSkills(discovered)))
                     ELSE Let(FilterDiscoveredSkills(discovered, MergedFilters(call)),
                              LAMBDA selected :
                                  IF selected = <<>>
                                  THEN Return(found, Err("no skills matched filters",
                                                         MergedFilters(call)))
                                  ELSE [found EXCEPT !.pc = "install",
                                                     !.selected = selected])))

\* what the copy of the next selected skill into the target of `pick` writes
Written(call, pick) ==
    CopyWrites(call.tree, InTree(call, call.selected[Len(call.installed) + 1].dir),
               TargetDir(pick.install_name))

\* one iteration of the install loop; copy_ok = FALSE is a copy_directory
\* whose first fs::copy fails
InstallNext(call, copy_ok) ==
    Let(PickUniqueInstallName(BaseName(call.selected[Len(call.installed) + 1]),
                              call.used_names),
        LAMBDA pick :
            Let(PrepareInstallTarget(call.skills_root, pick.install_name, call.force),
                LAMBDA prepared :
                    IF ~prepared.ok
                    THEN Return([call EXCEPT !.used_names = pick.used_names],
                                Err("target already exists", pick.install_name))
                    ELSE IF ~copy_ok
                    THEN Return([call EXCEPT !.used_names = pick.used_names,
                                             !.skills_root = prepared.root],
                                Err("failed to copy file", pick.install_name))
                    ELSE IF \E relative \in WalkedBelow(call.tree,
                                   InTree(call, call.selected[Len(call.installed) + 1].dir)) :
                               ~IsSafeRelativePath(relative)
                    THEN Return([call EXCEPT !.used_names = pick.used_names,
                                             !.skills_root = prepared.root],
                                Err("unsafe relative path while copying", pick.install_name))
                    ELSE Let(MapInsert(prepared.root, pick.install_name,
                                       CopyDirectory(call.tree,
                                           InTree(call, call.selected[Len(call.installed) + 1].dir),
                                           prepared.root[pick.install_name])),
                             LAMBDA root :
                                 IF ~EnsureSkillMdExists(root[pick.install_name])
                                 THEN Return([call EXCEPT !.used_names = pick.used_names,
                                                          !.skills_root = root,
                                                          !.written = @ \cup Written(call, pick)],
                                             Err("installed directory is missing SKILL.md at root",
                                                 pick.install_name))
                                 ELSE [call EXCEPT
                                          !.used_names = pick.used_names,
                                          !.skills_root = root,
                                          !.written = @ \cup Written(call, pick),
                                          !.installed = Append(@,
                                              [install_name |-> pick.install_name,
                                               source |-> call.parsed.val.original,
                                               version |-> None])])))

\* the read_dir listings the manager may get of a skills root: its
\* directories that hold SKILL.md, in any order
Listings(root) ==
    LET dirs == {n \in DOMAIN root : IsFile(root[n], <<SkillFileName>>)}
    IN  {[i \in 1..Cardinality(dirs) |->
             [dir_name |-> order[i], skill_md |-> root[order[i]][<<SkillFileName>>].text]] :
            order \in {o \in [1..Cardinality(dirs) -> dirs] :
                          \A i, j \in 1..Cardinality(dirs) : i # j => o[i] # o[j]}}

\* the name under which the i-th installed skill is asked for: the name of
\* its manifest, or the name of its directory when the manifest gives none
ManifestName(call, i) ==
    IF call.selected[i].name.some /\ call.selected[i].name.val # <<>>
    THEN call.selected[i].name.val
    ELSE call.installed[i].install_name

HubBegin ==
    /\ hub.pc = "start"
    /\ \E temp_name \in TempNames : hub' = Begin(hub, temp_name)
    /\ UNCHANGED <<fs_roots, mgr_call, memory_file, mem_lock, mem_proc, src_input, src_parsed>>

HubPrepareSource ==
    /\ hub.pc = "source"
    /\ \E clone_ok \in BOOLEAN : hub' = PrepareSource(hub, clone_ok)
    /\ UNCHANGED <<fs_roots, mgr_call, memory_file, mem_lock, mem_proc, src_input, src_parsed>>

HubSearch ==
    /\ hub.pc = "search"
    /\ \E order \in FoundOrders(hub.tree, hub.source_root, SearchRoot(hub)) :
          hub' = Search(hub, order)
    /\ UNCHANGED <<fs_roots, mgr_call, memory_file, mem_lock, mem_proc, src_input, src_parsed>>

HubInstallNext ==
    /\ hub.pc = "install"
    /\ Len(hub.installed) < Len(hub.selected)
    /\ \E copy_ok \in BOOLEAN : hub' = InstallNext(hub, copy_ok)
    /\ UNCHANGED <<fs_roots, mgr_call, memory_file, mem_lock, mem_proc, src_input, src_parsed>>

\* Ok(installed)
HubInstallReturn ==
    /\ hub.pc = "install"
    /\ Len(hub.installed) = Len(hub.selected)
    /\ hub' = Return(hub, Ok(hub.installed))
    /\ UNCHANGED <<fs_roots, mgr_call, memory_file, mem_lock, mem_proc, src_input, src_parsed>>

\* after a successful install, a SkillManager whose one root is the skills
\* root loads one of the installed skills by its name
HubRoundTrip ==
    /\ hub.pc = "done"
    /\ hub.op = "install_from_skills_source"
    /\ hub.result.val.ok
    /\ \E i \in 1..Len(hub.installed) : \E listing \in Listings(hub.skills_root) :
          /\ hub' = [hub EXCEPT !.pc = "checked", !.checked = i]
          /\ fs_roots' = <<listing>>
          /\ mgr_call' = [op |-> "load_skill_checked", arg |-> ManifestName(hub, i),
                          result |-> LoadSkillChecked(<<listing>>, <<listing>>,
                                                      ManifestName(hub, i))]
    /\ UNCHANGED <<memory_file, mem_lock, mem_proc, src_input, src_parsed>>

NextInstall ==
    \/ HubBegin
    \/ HubPrepareSource
    \/ HubSearch
    \/ HubInstallNext
    \/ HubInstallReturn
    \/ HubRoundTrip

SpecInstall == InitInstall /\ [][NextInstall]_vars

(* One call of install_from_skills_sh *)

\* most results a search returns
MaxResults == 2

\* the results skills.sh may return: id (slug), name and source; a field the
\* response leaves out is the empty string
SkillsShResults ==
    {[slug |-> Chars(r[1]), name |-> Chars(r[2]), source |-> Chars(r[3])] :
        r \in {<<"o/r", "a", "o/r">>, <<"a", "A-2", "">>, <<"x", "", "o/r">>,
               <<"y", "O/R", "o/r@a-2">>}}

\* the result lists: up to MaxResults different results in any order
SkillsShResultLists ==
    UNION {{list \in [1..n -> SkillsShResults] :
               \A i, j \in 1..n : i # j => list[i] # list[j]} : n \in 0..MaxResults}

\* the queries of the requests
SkillsShQueries == {" ", " O/R ", "a", "zz"}

\* a call that has not started; the search will return `results`, and the
\* repository of every source holds `tree`
NewSkillsShCall(slug_or_query, results, tree) ==
    [op |-> "install_from_skills_sh", slug_or_query |-> Chars(slug_or_query),
     results |-> results, tree |-> tree, force |-> FALSE, skills_root |-> <<>>,
     pc |-> "select", result |-> None]

InitSkillsSh ==
    /\ hub \in {NewSkillsShCall(query, results, tree) :
                   query \in SkillsShQueries, results \in SkillsShResultLists,
                   tree \in SourceTrees}
    /\ fs_roots = <<>>
    /\ mgr_call = NoCall
    /\ memory_file = <<>>
    /\ mem_lock = 0
    /\ mem_proc = <<>>
    /\ src_input = <<>>
    /\ src_parsed = None

\* a selection that looks at the names before the ids
SelectByNameFirst(results, query) ==
    LET by_slug == {i \in 1..Len(results) : EqIgnoreAsciiCase(results[i].slug, query)}
        by_name == {i \in 1..Len(results) : EqIgnoreAsciiCase(results[i].name, query)}
    IN  IF by_name # {} THEN results[CHOOSE i \in by_name : \A j \in by_name : i <= j]
        ELSE IF by_slug # {} THEN results[CHOOSE i \in by_slug : \A j \in by_slug : i <= j]
        ELSE results[1]

\* results.iter().find(slug).or_else(find(name)).unwrap_or(&results[0])
SelectResult(results, query) ==
    LET by_slug == {i \in 1..Len(results) : EqIgnoreAsciiCase(results[i].slug, query)}
        by_name == {i \in 1..Len(results) : EqIgnoreAsciiCase(results[i].name, query)}
    IN  IF by_slug # {} THEN results[CHOOSE i \in by_slug : \A j \in by_slug : i <= j]
        ELSE IF by_name # {} THEN results[CHOOSE i \in by_name : \A j \in by_name : i <= j]
        ELSE results[1]

\* the request install_from_skills_sh makes of the selected result
DelegatedRequest(call, selected) ==
    [op |-> "install_from_skills_source",
     source |-> IF Trim(selected.source) = <<>> THEN selected.slug ELSE selected.source,
     skill_filters |-> <<selected.name>>,
     skills_root |-> call.skills_root, force |-> call.force]

\* install_from_skills_sh up to its call of install_from_skills_source;
\* got = FALSE is a search that fails.  `call` is the call as it goes on,
\* `kept` the query, the results and the selected result.
SkillsShSelect(call, got) ==
    Let(Trim(call.slug_or_query), LAMBDA query :
        IF query = <<>>
        THEN [call |-> [call EXCEPT !.pc = "done",
                                    !.result = Some(Err("slug_or_query cannot be empty", <<>>))],
              kept |-> None]
        ELSE IF ~got
        THEN [call |-> [call EXCEPT !.pc = "done",
                                    !.result = Some(Err("GET request failed", query))],
              kept |-> None]
        ELSE IF call.results = <<>>
        THEN [call |-> [call EXCEPT !.pc = "done",
                                    !.result = Some(Err("no skills.sh results found", query))],
              kept |-> None]
        ELSE Let(SelectResult(call.results, query), LAMBDA selected :
                 [call |-> NewCall(DelegatedRequest(call, selected), call.tree),
                  kept |-> Some([query |-> query, results |-> call.results,
                                 selected |-> selected])]))

HubSkillsShSelect ==
    /\ hub.op = "install_from_skills_sh"
    /\ hub.pc = "select"
    /\ \E got \in BOOLEAN :
          /\ hub' = SkillsShSelect(hub, got).call
          /\ src_parsed' = SkillsShSelect(hub, got).kept
    /\ UNCHANGED <<fs_roots, mgr_call, memory_file, mem_lock, mem_proc, src_input>>

NextSkillsSh ==
    \/ HubSkillsShSelect
    \/ HubBegin
    \/ HubPrepareSource
    \/ HubSearch
    \/ HubInstallNext
    \/ HubInstallReturn

\* install_from_skills_sh, and the install from the source it delegates to
SpecSkillsSh == InitSkillsSh /\ [][NextSkillsSh]_vars

(* One call of install_from_clawhub *)

RECURSIVE ResolveFrom(_, _, _)
\* the entry that the file system finds for a path whose directories are
\* no symlinks: ".." is the parent, and the parent of the root is the root
ResolveFrom(path, i, out) ==
    IF i > Len(path) THEN out
    ELSE IF path[i] = "/" THEN ResolveFrom(path, i + 1, <<"/">>)
    ELSE IF path[i] = ".."
    THEN ResolveFrom(path, i + 1, IF Len(out) <= 1 THEN out ELSE SubSeq(out, 1, Len(out) - 1))
    ELSE ResolveFrom(path, i + 1, Append(out, path[i]))

Resolve(path) == ResolveFrom(path, 1, <<>>)

RECURSIVE EnclosedDepth(_, _, _)
\* the loop of ZipFile::enclosed_name over the components of the name: a
\* root component, or a ".." that leaves the directory, makes the name unsafe
EnclosedDepth(components, i, depth) ==
    IF i > Len(components) THEN TRUE
    ELSE IF components[i] = "/" THEN FALSE
    ELSE IF components[i] = ".." THEN depth > 0 /\ EnclosedDepth(components, i + 1, depth - 1)
    ELSE EnclosedDepth(components, i + 1, depth + 1)

\* a name check that takes every name as it is
EnclosedNameUnchecked(name) == Some(Components(Chars(name)))

\* entry.enclosed_name().map(PathBuf::from)
EnclosedName(name) ==
    Let(Components(Chars(name)), LAMBDA components :
        IF EnclosedDepth(components, 1, 0) THEN Some(components) ELSE None)

\* entry.is_dir() || entry.name().ends_with('/')
IsDirEntry(name) == EndsWith(Chars(name), <<"/">>)

\* The directories and files a call has to do with are kept by absolute path:
\* files maps the path of a file to [kind, text], dirs is the set of the
\* directories, written the set of the paths the call created or wrote.

\* the target directory after prepare_install_target: it exists and is empty
EmptyTarget(target) ==
    [files |-> <<>>, dirs |-> {SubSeq(target, 1, k) : k \in 1..Len(target)},
     written |-> {}, skipped |-> {}, err |-> ""]

\* fs::create_dir_all: the path and the missing directories above it are
\* made; a regular file on the way is an error
CreateDirAll(st, path, message) ==
    Let({Resolve(SubSeq(path, 1, k)) : k \in 1..Len(path)}, LAMBDA prefixes :
        IF prefixes \cap DOMAIN st.files # {} THEN [st EXCEPT !.err = message]
        ELSE [st EXCEPT !.dirs = st.dirs \cup prefixes,
                        !.written = st.written \cup (prefixes \ st.dirs)])

\* fs::File::create, io::copy and flush: a directory at the path is an error,
\* a file at the path is replaced
CreateFile(st, path, data, message) ==
    Let(Resolve(path), LAMBDA p :
        IF p \in st.dirs THEN [st EXCEPT !.err = message]
        ELSE [st EXCEPT !.files = MapInsert(st.files, p, RegularFile(data)),
                        !.written = st.written \cup {p}])

\* the body of the loop of extract_zip_to_dir for one entry; io_ok = FALSE is
\* a file system that refuses the first thing the entry asks of it
ExtractEntry(st, target_dir, entry, io_ok) ==
    Let(EnclosedName(entry.name), LAMBDA rel_path :
        IF ~rel_path.some THEN [st EXCEPT !.skipped = st.skipped \cup {entry.name}]
        ELSE Let(JoinPath(target_dir, rel_path.val), LAMBDA out_path :
                 IF IsDirEntry(entry.name)
                 THEN IF ~io_ok THEN [st EXCEPT !.err = "failed to create directory"]
                      ELSE CreateDirAll(st, out_path, "failed to create directory")
                 ELSE IF ~io_ok THEN [st EXCEPT !.err = "failed to create parent directory"]
                 ELSE Let(CreateDirAll(st, SubSeq(out_path, 1, Len(out_path) - 1),
                                       "failed to create parent directory"),
                          LAMBDA made :
                              IF made.err # "" THEN made
                              ELSE CreateFile(made, out_path, entry.text,
                                              "failed to create file"))))

RECURSIVE ExtractFrom(_, _, _, _, _)
\* the loop of extract_zip_to_dir from the entry of index i
ExtractFrom(st, target_dir, zip, i, fail_at) ==
    IF i > Len(zip) \/ st.err # "" THEN st
    ELSE ExtractFrom(ExtractEntry(st, target_dir, zip[i], i # fail_at),
                     target_dir, zip, i + 1, fail_at)

\* extract_zip_to_dir; fail_at = -1 is an archive that ZipArchive::new cannot
\* open, fail_at = 0 a run without an error of the file system
ExtractZipToDir(st, target_dir, zip, fail_at) ==
    IF fail_at = -1 THEN [st EXCEPT !.err = "failed to open zip archive"]
    ELSE ExtractFrom(st, target_dir, zip, 1, fail_at)

\* the names of the entries of a directory, as fs::read_dir gives them
ChildNames(st, dir) ==
    {p[Len(dir) + 1] : p \in {q \in DOMAIN st.files \cup st.dirs :
                                 Len(q) = Len(dir) + 1 /\ StartsWith(q, dir)}}

\* whether a directory has an entry
HasEntries(st, dir) ==
    \E q \in DOMAIN st.files \cup st.dirs : Len(q) > Len(dir) /\ StartsWith(q, dir)

\* a path below `from`, taken below `to`
Moved(p, from, to) == to \o SubSeq(p, Len(from) + 1, Len(p))

\* fs::rename of a file or directory: a file does not replace a directory,
\* a directory replaces neither a file nor a directory that has entries
Rename(st, from, to) ==
    IF \/ from \in DOMAIN st.files /\ to \in st.dirs
       \/ from \in st.dirs /\ to \in DOMAIN st.files
       \/ from \in st.dirs /\ to \in st.dirs /\ HasEntries(st, to)
    THEN [st EXCEPT !.err = "failed to move extracted content"]
    ELSE Let(<<{f \in DOMAIN st.files : StartsWith(f, from)},
               {d \in st.dirs : StartsWith(d, from)}>>,
             LAMBDA below :
                 [st EXCEPT
                     !.files = [f \in (DOMAIN st.files \ below[1])
                                        \cup {Moved(g, from, to) : g \in below[1]} |->
                                   IF \E g \in below[1] : Moved(g, from, to) = f
                                   THEN st.files[from \o SubSeq(f, Len(to) + 1, Len(f))]
                                   ELSE st.files[f]],
                     !.dirs = (st.dirs \ below[2]) \cup {Moved(d, from, to) : d \in below[2]},
                     !.written = st.written \cup {Moved(p, from, to) :
                                                     p \in below[1] \cup below[2]}])

\* fs::remove_dir_all
RemoveDirAll(st, dir) ==
    [st EXCEPT !.files = [f \in {g \in DOMAIN st.files : ~StartsWith(g, dir)} |-> st.files[f]],
               !.dirs = {d \in st.dirs : ~StartsWith(d, dir)}]

RECURSIVE MoveFrom(_, _, _, _, _)
\* the loop of maybe_flatten_single_nested_skill_dir over read_dir(child),
\* whose entries come in `order`, and the removal of the child after it
MoveFrom(st, target_dir, child, order, i) ==
    IF i > Len(order) THEN RemoveDirAll(st, child)
    ELSE Let(Rename(st, child \o <<order[i]>>, target_dir \o <<order[i]>>), LAMBDA moved :
             IF moved.err # "" THEN moved
             ELSE MoveFrom(moved, target_dir, child, order, i + 1))

\* the one child directory whose content maybe_flatten_single_nested_skill_dir
\* moves up, if the target is of that shape
NestedSkillDir(st, target_dir) ==
    IF target_dir \o <<SkillFileName>> \in DOMAIN st.files THEN None
    ELSE LET names == ChildNames(st, target_dir)
             dirs == {n \in names : target_dir \o <<n>> \in st.dirs}
             files == {n \in names : target_dir \o <<n>> \in DOMAIN st.files}
         IN  IF files = {} /\ Cardinality(dirs) = 1
                /\ \A n \in dirs : target_dir \o <<n, SkillFileName>> \in DOMAIN st.files
             THEN Some(target_dir \o <<CHOOSE n \in dirs : TRUE>>)
             ELSE None

\* the orders in which read_dir may list a directory
ReadDirOrders(st, dir) ==
    LET names == ChildNames(st, dir)
        n == Cardinality(names)
    IN  {order \in [1..n -> names] : \A i, j \in 1..n : i # j => order[i] # order[j]}

\* the orders the loop of the flatten may see: those of the nested directory
FlattenOrders(st, target_dir) ==
    Let(NestedSkillDir(st, target_dir), LAMBDA child :
        IF child.some THEN ReadDirOrders(st, child.val) ELSE {<<>>})

\* maybe_flatten_single_nested_skill_dir
MaybeFlattenSingleNestedSkillDir(st, target_dir, order) ==
    Let(NestedSkillDir(st, target_dir), LAMBDA child :
        IF child.some THEN MoveFrom(st, target_dir, child.val, order, 1) ELSE st)

\* the files of a directory by their paths from it
ContentOf(st, dir) ==
    [rel \in {SubSeq(f, Len(dir) + 1, Len(f)) :
                 f \in {g \in DOMAIN st.files : Len(g) > Len(dir) /\ StartsWith(g, dir)}} |->
        st.files[dir \o rel]]

\* most entries a downloaded archive holds
MaxZipEntries == 3

\* the names of the entries of the archives
ZipNames ==
    {"SKILL.md", "pkg/SKILL.md", "pkg/", "pkg/pkg", "pkg", "pkg/../notes.md",
     "../evil.md", "/abs.md"}

\* the entry of a name: a SKILL.md holds a manifest
ZipEntry(name) ==
    [name |-> name,
     text |-> IF EndsWith(Chars(name), Chars(SkillFileName)) THEN GoodManifest
              ELSE <<"notes">>]

\* the archives the registry may send: up to MaxZipEntries entries of
\* different names
Zips ==
    UNION {{[i \in 1..n |-> ZipEntry(names[i])] :
              names \in {s \in [1..n -> ZipNames] : \A i, j \in 1..n : i # j => s[i] # s[j]}} :
           n \in 0..MaxZipEntries}

\* the requests: a slug into an empty root and, with force, into the root
\* that holds "a"; a slug that is not a name as it stands
ClawhubRequests ==
    {[slug |-> Chars(c[1]), force |-> c[2], skills_root |-> c[3]] :
        c \in {<<"a", FALSE, <<>> >>, <<" A ", TRUE, [n \in {<<"a">>} |-> OldSkillDir]>>,
               <<"B c", FALSE, <<>> >>}}

\* the requests that return before the download: an empty slug, and a target
\* that exists while force is not set
ClawhubEarlyRequests ==
    {[slug |-> Chars(c[1]), force |-> c[2], skills_root |-> c[3]] :
        c \in {<<" ", FALSE, <<>> >>, <<"a", FALSE, [n \in {<<"a">>} |-> OldSkillDir]>>}}

\* a call that has not started, to which the registry will send `zip`
NewClawhubCall(request, zip) ==
    [op |-> "install_from_clawhub", slug |-> request.slug, force |-> request.force,
     zip |-> zip, skills_root |-> request.skills_root, before |-> request.skills_root,
     pc |-> "claw_start", install_name |-> <<>>, st |-> EmptyTarget(SkillsRootPath),
     first |-> None, result |-> None]

InitClawhub ==
    /\ hub \in {NewClawhubCall(request, zip) : request \in ClawhubRequests, zip \in Zips}
               \cup {NewClawhubCall(request, <<>>) : request \in ClawhubEarlyRequests}
    /\ fs_roots = <<>>
    /\ mgr_call = NoCall
    /\ memory_file = <<>>
    /\ mem_lock = 0
    /\ mem_proc = <<>>
    /\ src_input = <<>>
    /\ src_parsed = None

\* a return that, on an error, removes the target directory
ClawReturnCleaning(call, result) ==
    [call EXCEPT !.pc = "done", !.result = Some(result),
                 !.skills_root = IF result.ok THEN call.skills_root
                                 ELSE [n \in DOMAIN call.skills_root \ {call.install_name} |->
                                          call.skills_root[n]]]

\* the call returns
ClawReturn(call, result) == [call EXCEPT !.pc = "done", !.result = Some(result)]

\* the skills root with the target as the file system holds it
WithTarget(call, st) ==
    MapInsert(call.skills_root, call.install_name, ContentOf(st, TargetDir(call.install_name)))

\* from the slug to the prepared target
ClawPrepare(call) ==
    Let(Trim(call.slug), LAMBDA slug :
        IF slug = <<>> THEN ClawReturn(call, Err("slug cannot be empty", <<>>))
        ELSE Let(SanitizeName(slug), LAMBDA install_name :
                 Let(PrepareInstallTarget(call.skills_root, install_name, call.force),
                     LAMBDA prepared :
                         IF ~prepared.ok
                         THEN ClawReturn([call EXCEPT !.install_name = install_name],
                                         Err("target already exists", install_name))
                         ELSE [call EXCEPT !.pc = "claw_download",
                                           !.install_name = install_name,
                                           !.skills_root = prepared.root,
                                           !.st = EmptyTarget(TargetDir(install_name))])))

\* self.get_bytes(url)
ClawDownload(call, got) ==
    IF got THEN [call EXCEPT !.pc = "claw_extract"]
    ELSE ClawReturn(call, Err("request failed", call.slug))

\* a step on the target that may fail: the file system is as the step left it
ClawStep(call, st, pc) ==
    IF st.err # ""
    THEN ClawReturn([call EXCEPT !.st = st, !.skills_root = WithTarget(call, st)],
                    Err(st.err, call.install_name))
    ELSE [call EXCEPT !.pc = pc, !.st = st, !.skills_root = WithTarget(call, st)]

\* install::extract_zip_to_dir(&zip_bytes, &target_dir)?
ClawExtract(call, fail_at) ==
    ClawStep(call, ExtractZipToDir(call.st, TargetDir(call.install_name), call.zip, fail_at),
             "claw_flatten")

\* install::maybe_flatten_single_nested_skill_dir(&target_dir)?
ClawFlatten(call, order) ==
    ClawStep(call, MaybeFlattenSingleNestedSkillDir(call.st, TargetDir(call.install_name),
                                                     order),
             "claw_ensure")

\* install::ensure_skill_md_exists(&target_dir)? and the InstalledSkill
ClawEnsure(call) ==
    IF ~EnsureSkillMdExists(call.skills_root[call.install_name])
    THEN ClawReturn(call, Err("installed directory is missing SKILL.md at root",
                              call.install_name))
    ELSE ClawReturn(call, Ok([install_name |-> call.install_name,
                              source |-> Chars("clawhub:") \o Trim(call.slug),
                              version |-> None]))

HubClawPrepare ==
    /\ hub.pc = "claw_start"
    /\ hub' = ClawPrepare(hub)
    /\ UNCHANGED <<fs_roots, mgr_call, memory_file, mem_lock, mem_proc, src_input, src_parsed>>

HubClawDownload ==
    /\ hub.pc = "claw_download"
    /\ \E got \in BOOLEAN : hub' = ClawDownload(hub, got)
    /\ UNCHANGED <<fs_roots, mgr_call, memory_file, mem_lock, mem_proc, src_input, src_parsed>>

HubClawExtract ==
    /\ hub.pc = "claw_extract"
    /\ \E fail_at \in -1..Len(hub.zip) : hub' = ClawExtract(hub, fail_at)
    /\ UNCHANGED <<fs_roots, mgr_call, memory_file, mem_lock, mem_proc, src_input, src_parsed>>

HubClawFlatten ==
    /\ hub.pc = "claw_flatten"
    /\ \E order \in FlattenOrders(hub.st, TargetDir(hub.install_name)) :
          hub' = ClawFlatten(hub, order)
    /\ UNCHANGED <<fs_roots, mgr_call, memory_file, mem_lock, mem_proc, src_input, src_parsed>>

HubClawEnsure ==
    /\ hub.pc = "claw_ensure"
    /\ hub' = ClawEnsure(hub)
    /\ UNCHANGED <<fs_roots, mgr_call, memory_file, mem_lock, mem_proc, src_input, src_parsed>>

\* the errors of a call that had prepared its target
AfterPrepareErrors ==
    {"request failed", "failed to open zip archive", "failed to create directory",
     "failed to create parent directory", "failed to create file",
     "failed to move extracted content", "installed directory is missing SKILL.md at root"}

\* after a call that failed once its target was prepared, the caller makes
\* the request again, with or without force, on the skills root as it is
HubClawRetry ==
    /\ hub.op = "install_from_clawhub"
    /\ hub.pc = "done"
    /\ ~hub.first.some
    /\ ~hub.result.val.ok
    /\ hub.result.val.err \in AfterPrepareErrors
    /\ \E force \in BOOLEAN :
          hub' = [NewClawhubCall([slug |-> hub.slug, force |-> force,
                                  skills_root |-> hub.skills_root], hub.zip)
                     EXCEPT !.first = Some([force |-> hub.force, before |-> hub.before,
                                            err |-> hub.result.val.err])]
    /\ UNCHANGED <<fs_roots, mgr_call, memory_file, mem_lock, mem_proc, src_input, src_parsed>>

NextClawhub ==
    \/ HubClawPrepare
    \/ HubClawRetry
    \/ HubClawDownload
    \/ HubClawExtract
    \/ HubClawFlatten
    \/ HubClawEnsure

InitHub == InitInstall \/ InitClawhub

NextHub == NextInstall \/ NextClawhub

\* the calls of the hub that install: from a source, or from the registry
SpecHub == InitHub /\ [][NextHub]_vars

(* Calls of the hub's functions on one name or on a list of filters *)

\* most characters of the short names
MaxNameLen == 4

\* the characters of the short names
NameAlphabet == {"A", "b", "1", ".", "_", "-", SP, "/"}

\* the strings of n characters of the alphabet
Strings(alphabet, n) == UNION {[1..k -> alphabet] : k \in 0..n}

\* a character n times
Repeat(c, n) == [i \in 1..n |-> c]

\* names of the tests, and names whose sanitized text has MaxNameChars
\* characters or more
GivenNames ==
    {Chars("  Hello World!  "), Chars("../My_Skill"), Chars("..."),
     Repeat("a", MaxNameChars), Repeat("a", MaxNameChars + 1),
     Repeat("a", MaxNameChars - 1) \o Chars("-b"),
     Chars("../") \o Repeat("B", MaxNameChars) \o Chars("!!c")}

Names == Strings(NameAlphabet, MaxNameLen) \cup GivenNames

\* most filters of a list
MaxFilters == 2

\* the filters of the lists: those of the test, filters that end with '@',
\* the wildcard, and one with two '@'
FilterTexts == {"owner/repo@My Skill", "Frontend", " ", "", "owner/repo@", "@ ", "*", " B@c@ D "}

FilterLists ==
    UNION {{[i \in 1..n |-> Chars(texts[i])] : texts \in [1..n -> FilterTexts]} :
           n \in 0..MaxFilters}

\* the lines that may open a SKILL.md and those that may follow its first
\* YAML line: the delimiters, and delimiters with a space before or after
OpeningLines == {<<"---">>, <<SP, "---">>, <<"---", SP>>, <<"...">>}
ClosingLines == {<<"---">>, <<"...">>, <<SP, "---">>, <<"...", SP>>, <<"deps: [sh]">>}

RECURSIVE Concat(_)
\* the texts of a sequence, one after the other
Concat(texts) == IF texts = <<>> THEN <<>> ELSE Head(texts) \o Concat(Tail(texts))

\* the SKILL.md files given to both parsers: an opening line, a name, a
\* closing line, a line of body and, in some, a later "---" line; lines end
\* with LF, or all with CR LF
FrontmatterTexts ==
    {Concat([i \in 1..Len(lines) |-> lines[i] \o eol]) :
        lines \in {<<open, <<"name: a">>, close, <<"Instructions">> >> \o more :
                      open \in OpeningLines, close \in ClosingLines,
                      more \in {<<>>, << <<"---">> >>}},
        eol \in {<<LF>>, <<CR, LF>>}}

InitText ==
    /\ \/ hub \in {[op |-> "sanitize_name", arg |-> name, pc |-> "start", result |-> None] :
                     name \in Names}
       \/ hub \in {[op |-> "parse_frontmatter", arg |-> content, pc |-> "start",
                     result |-> None] : content \in FrontmatterTexts}
       \/ hub \in {[op |-> "normalize_filters", arg |-> filters, pc |-> "start",
                     result |-> None] : filters \in FilterLists}
    /\ fs_roots = <<>>
    /\ mgr_call = NoCall
    /\ memory_file = <<>>
    /\ mem_lock = 0
    /\ mem_proc = <<>>
    /\ src_input = <<>>
    /\ src_parsed = None

\* sanitize_name(name)
HubSanitizeName ==
    /\ hub.pc = "start"
    /\ hub.op = "sanitize_name"
    /\ hub' = [hub EXCEPT !.pc = "done", !.result = Some(SanitizeName(hub.arg))]
    /\ UNCHANGED <<fs_roots, mgr_call, memory_file, mem_lock, mem_proc, src_input, src_parsed>>

\* normalize_filters(filters)
HubNormalizeFilters ==
    /\ hub.pc = "start"
    /\ hub.op = "normalize_filters"
    /\ hub' = [hub EXCEPT !.pc = "done", !.result = Some(NormalizeFilters(hub.arg))]
    /\ UNCHANGED <<fs_roots, mgr_call, memory_file, mem_lock, mem_proc, src_input, src_parsed>>

\* the installer's parse_frontmatter and the manager's parse_skill_md on the
\* same SKILL.md, each up to its call of serde_yaml
HubParseFrontmatter ==
    /\ hub.pc = "start"
    /\ hub.op = "parse_frontmatter"
    /\ hub' = [hub EXCEPT !.pc = "done",
                          !.result = Some([installer |-> HubYamlBlock(hub.arg),
                                           runtime |-> ManagerYamlBlock(hub.arg)])]
    /\ UNCHANGED <<fs_roots, mgr_call, memory_file, mem_lock, mem_proc, src_input, src_parsed>>

NextText ==
    \/ HubSanitizeName
    \/ HubParseFrontmatter
    \/ HubNormalizeFilters

SpecText == InitText /\ [][NextText]_vars

(* load_skill_checked while another process rewrites a SKILL.md *)

\* the disk with the SKILL.md of entry i of root r replaced
Rewritten(roots, r, i, content) == [roots EXCEPT ![r][i].skill_md = content]

\* the call has made its merge pass over the disk it saw
MgrLoadMerge ==
    \E name \in RequestNames :
        /\ mgr_call = NoCall
        /\ mgr_call' = [op |-> "load_skill_checked", arg |-> name, pc |-> "merged",
                        seen |-> fs_roots, result |-> <<>>]
        /\ UNCHANGED <<fs_roots, memory_file, mem_lock, mem_proc, src_input, src_parsed, hub>>

\* between the merge pass and the next read another process writes the
\* SKILL.md of one skill directory
DiskRewrite ==
    /\ mgr_call.op = "load_skill_checked"
    /\ mgr_call.pc = "merged"
    /\ fs_roots = mgr_call.seen
    /\ \E r \in 1..Len(fs_roots) : \E i \in 1..Len(fs_roots[r]) :
          \E content \in Manifests(r) \ {fs_roots[r][i].skill_md} :
              fs_roots' = Rewritten(fs_roots, r, i, content)
    /\ UNCHANGED <<mgr_call, memory_file, mem_lock, mem_proc, src_input, src_parsed, hub>>

\* the gate on the merged entry, the read of its SKILL.md as it is now, and
\* the return
MgrLoadReturn ==
    /\ mgr_call.op = "load_skill_checked"
    /\ mgr_call.pc = "merged"
    /\ mgr_call' = [mgr_call EXCEPT
                       !.pc = "done",
                       !.result = LoadSkillChecked(mgr_call.seen, fs_roots, mgr_call.arg)]
    /\ UNCHANGED <<fs_roots, memory_file, mem_lock, mem_proc, src_input, src_parsed, hub>>

NextMgrRace == MgrLoadMerge \/ DiskRewrite \/ MgrLoadReturn

SpecMgrRace == InitMgr /\ [][NextMgrRace]_vars

(* Two install calls at once: every file-system call is a step of its own *)

\* the processes that install at the same time
Installers == {1, 2}

\* the slugs of the two calls: "a" and " A " name the same target
RaceSlugs == {"a", " A ", "b"}

\* what installer p writes, in the order of its archive: every file holds
\* the mark of its installer
RacePayloads(p) ==
    {[i \in 1..Len(names) |->
         [name |-> <<names[i]>>,
          text |-> IF names[i] = SkillFileName THEN GoodManifest \o <<"by", SP>>
                                                        \o (IF p = 1 THEN <<"one">> ELSE <<"two">>)
                   ELSE IF p = 1 THEN <<"one">> ELSE <<"two">>]] :
        names \in {<<SkillFileName>>, <<SkillFileName, "notes.md">>,
                   <<"notes.md", SkillFileName>>, <<"notes.md">>}}

\* an install call with force=false that has not started
NewRaceCall(slug, payload) ==
    [slug |-> Chars(slug), force |-> FALSE, payload |-> payload, todo |-> payload,
     pc |-> "check", install_name |-> <<>>, before |-> <<>>, result |-> None]

InitRace ==
    /\ hub \in {[op |-> "concurrent_installs", skills_root |-> root,
                 calls |-> [p \in Installers |-> IF p = 1 THEN one ELSE two]] :
                   root \in {<<>>, [n \in {<<"a">>} |-> OldSkillDir]},
                   one \in {NewRaceCall(slug, payload) :
                               slug \in RaceSlugs, payload \in RacePayloads(1)},
                   two \in {NewRaceCall(slug, payload) :
                               slug \in RaceSlugs, payload \in RacePayloads(2)}}
    /\ fs_roots = <<>>
    /\ mgr_call = NoCall
    /\ memory_file = <<>>
    /\ mem_lock = 0
    /\ mem_proc = <<>>
    /\ src_input = <<>>
    /\ src_parsed = None

\* a test of the target that also sees the installs under way: true as well
\* when another call has passed its test of the same target and not returned
TargetExistsOrClaimed(race, p, install_name) ==
    \/ install_name \in DOMAIN race.skills_root
    \/ \E q \in Installers \ {p} :
          /\ race.calls[q].pc \notin {"check", "done"}
          /\ race.calls[q].install_name = install_name

\* path.exists() of the target, on the disk as it is at the call
TargetExists(race, p, install_name) == install_name \in DOMAIN race.skills_root

\* the slug is trimmed and sanitized, and prepare_install_target tests the
\* target: without force a target that exists ends the call
RaceCheck(p) ==
    /\ hub.op = "concurrent_installs"
    /\ hub.calls[p].pc = "check"
    /\ hub' = Let(SanitizeName(Trim(hub.calls[p].slug)), LAMBDA install_name :
                 IF TargetExists(hub, p, install_name) /\ ~hub.calls[p].force
                 THEN [hub EXCEPT !.calls[p].pc = "done",
                                  !.calls[p].install_name = install_name,
                                  !.calls[p].before = hub.skills_root,
                                  !.calls[p].result =
                                      Some(Err("target already exists", install_name))]
                 ELSE [hub EXCEPT !.calls[p].pc = "create",
                                  !.calls[p].install_name = install_name,
                                  !.calls[p].before = hub.skills_root])
    /\ UNCHANGED <<fs_roots, mgr_call, memory_file, mem_lock, mem_proc, src_input, src_parsed>>

\* fs::create_dir_all of the target: a directory that is there is left as it is
RaceCreate(p) ==
    /\ hub.op = "concurrent_installs"
    /\ hub.calls[p].pc = "create"
    /\ hub' = [hub EXCEPT !.calls[p].pc = "write",
                          !.skills_root =
                              IF hub.calls[p].install_name \in DOMAIN hub.skills_root
                              THEN hub.skills_root
                              ELSE MapInsert(hub.skills_root, hub.calls[p].install_name,
                                             EmptyDir)]
    /\ UNCHANGED <<fs_roots, mgr_call, memory_file, mem_lock, mem_proc, src_input, src_parsed>>

\* the next file of the call is created, or truncated, and written
RaceWrite(p) ==
    /\ hub.op = "concurrent_installs"
    /\ hub.calls[p].pc = "write"
    /\ hub' = Let(<<hub.calls[p].install_name, Head(hub.calls[p].todo)>>, LAMBDA v :
                 [hub EXCEPT !.calls[p].todo = Tail(@),
                             !.calls[p].pc = IF Len(hub.calls[p].todo) = 1 THEN "ensure"
                                             ELSE "write",
                             !.skills_root =
                                 MapInsert(hub.skills_root, v[1],
                                           MapInsert(hub.skills_root[v[1]], v[2].name,
                                                     RegularFile(v[2].text)))])
    /\ UNCHANGED <<fs_roots, mgr_call, memory_file, mem_lock, mem_proc, src_input, src_parsed>>

\* ensure_skill_md_exists on the target as it is now, and the return
RaceEnsure(p) ==
    /\ hub.op = "concurrent_installs"
    /\ hub.calls[p].pc = "ensure"
    /\ hub' = [hub EXCEPT !.calls[p].pc = "done",
                          !.calls[p].result =
                              IF EnsureSkillMdExists(hub.skills_root[hub.calls[p].install_name])
                              THEN Some(Ok(hub.calls[p].install_name))
                              ELSE Some(Err("installed directory is missing SKILL.md at root",
                                            hub.calls[p].install_name))]
    /\ UNCHANGED <<fs_roots, mgr_call, memory_file, mem_lock, mem_proc, src_input, src_parsed>>

NextRace ==
    \/ \E p \in Installers : RaceCheck(p)
    \/ \E p \in Installers : RaceCreate(p)
    \/ \E p \in Installers : RaceWrite(p)
    \/ \E p \in Installers : RaceEnsure(p)

\* two installs without force, run by two processes or threads
SpecRace == InitRace /\ [][NextRace]_vars

(* The loop of install_from_skills_source over the selected skills, and the
   sort of list_from_skills_source, on skills given as they were discovered *)

\* the SKILL.md files of the skills given: a name, a name in capitals, a name
\* that is the empty string, and no frontmatter
NamedManifests ==
    {Manifest(n, 1, <<>>) : n \in {"name: a", "name: A", "name: b", "name: ''"}}
    \cup {PlainManifest}

\* the directories of the skills given; the last has no file_name()
NamedDirs == {<<"/", "src", "My Dir">>, <<"/", "src", "a">>, <<"/", "src", "x", "a">>, <<"/">>}

\* the DiscoveredSkill of a directory whose SKILL.md holds `content`
DiscoveredAt(dir, content) == [dir |-> dir, name |-> ReadSkillName(content)]

\* most skills of a batch
MaxBatch == 3

\* the base names of the skills of a batch, in the order they were selected
BatchBaseNames ==
    UNION {[1..n -> {Chars("a"), Chars("a-2"), Chars("b")}] : n \in 1..MaxBatch}

InitBatch ==
    /\ \/ hub \in {[op |-> "base_name", arg |-> DiscoveredAt(dir, content), pc |-> "start",
                     result |-> None] : dir \in NamedDirs, content \in NamedManifests}
       \/ hub \in {[op |-> "pick_names", arg |-> bases, pc |-> "loop", used_names |-> {},
                     result |-> <<>>] : bases \in BatchBaseNames}
    /\ fs_roots = <<>>
    /\ mgr_call = NoCall
    /\ memory_file = <<>>
    /\ mem_lock = 0
    /\ mem_proc = <<>>
    /\ src_input = <<>>
    /\ src_parsed = None

\* the base name of one selected skill
HubBaseName ==
    /\ hub.op = "base_name"
    /\ hub.pc = "start"
    /\ hub' = [hub EXCEPT !.pc = "done", !.result = Some(BaseName(hub.arg))]
    /\ UNCHANGED <<fs_roots, mgr_call, memory_file, mem_lock, mem_proc, src_input, src_parsed>>

\* one turn of the loop: pick_unique_install_name for the next skill, with
\* the used_names the turns before left
HubPickName ==
    /\ hub.op = "pick_names"
    /\ hub.pc = "loop"
    /\ hub' = Let(PickUniqueInstallName(hub.arg[Len(hub.result) + 1], hub.used_names),
                  LAMBDA pick :
                      [hub EXCEPT !.result = Append(@, pick.install_name),
                                  !.used_names = pick.used_names,
                                  !.pc = IF Len(hub.result) + 1 = Len(hub.arg) THEN "done"
                                         ELSE "loop"])
    /\ UNCHANGED <<fs_roots, mgr_call, memory_file, mem_lock, mem_proc, src_input, src_parsed>>

NextBatch ==
    \/ HubBaseName
    \/ HubPickName

SpecBatch == InitBatch /\ [][NextBatch]_vars

-----------------------------------------------------------------------------
(* install_from_skills_source on a local path, source and skills root in one
   file system *)

\* most components of a path the file system takes: a longer one is refused
\* as the name of a directory (ENAMETOOLONG)
MaxPathLen == 6

\* where the source directory and the skills root of a request lie: apart,
\* the root above the source, the root below the source, both the same
LocalPlacements ==
    {[source |-> Chars(p[1]), skills_root |-> Components(Chars(p[2]))] :
        p \in {<<"/src", "/dst">>, <<"/skills/a", "/skills">>,
               <<"/src", "/src/out">>, <<"/src", "/src">>}}

\* the trees a local source holds: those of SourceTrees with at most two
\* skill directories
LocalTrees ==
    {tree \in SourceTrees :
        Cardinality({f \in DOMAIN tree : f[Len(f)] = SkillFileName}) \in 1..2}

\* the file system with `tree` in the directory `dir`
TreeAt(dir, tree) ==
    [files |-> [f \in {dir \o rel : rel \in DOMAIN tree} |->
                   tree[SubSeq(f, Len(dir) + 1, Len(f))]],
     dirs |-> UNION {{SubSeq(dir \o rel, 1, k) : k \in 1..(Len(dir \o rel) - 1)} :
                        rel \in DOMAIN tree}
              \cup {SubSeq(dir, 1, k) : k \in 1..Len(dir)},
     written |-> {}, skipped |-> {}, err |-> ""]

\* a call that has not started
NewLocalCall(placement, tree, force) ==
    [op |-> "install_from_skills_source", source |-> placement.source, force |-> force,
     skills_root |-> placement.skills_root,
     st |-> TreeAt(Components(placement.source), tree),
     before |-> TreeAt(Components(placement.source), tree),
     pc |-> "start", parsed |-> None, selected |-> <<>>, used_names |-> {},
     target_dir |-> <<>>, install_name |-> <<>>, walk |-> <<>>,
     installed |-> <<>>, result |-> None]

InitLocal ==
    /\ hub \in {NewLocalCall(placement, tree, force) :
                   placement \in LocalPlacements, tree \in LocalTrees, force \in BOOLEAN}
    /\ fs_roots = <<>>
    /\ mgr_call = NoCall
    /\ memory_file = <<>>
    /\ mem_lock = 0
    /\ mem_proc = <<>>
    /\ src_input = <<>>
    /\ src_parsed = None

LocalFail(call, result) == [call EXCEPT !.pc = "done", !.result = Some(result)]

\* the tree discover_skills walks: the files below the source directory
LocalTree(call, st) == ContentOf(st, Components(call.parsed.local_path.val))

\* parse_source, ensure_dir(skills_root), discover_skills and
\* filter_discovered_skills; `order` is the order of the walk
LocalBegin(call, order) ==
    Let(ParseSource(call.source), LAMBDA parsed :
        IF ~parsed.ok THEN LocalFail(call, Err(parsed.err, <<>>))
        ELSE Let(CreateDirAll(call.st, call.skills_root, "failed to create directory"),
                 LAMBDA st :
            Let([call EXCEPT !.parsed = parsed.parsed, !.st = st], LAMBDA made :
                IF st.err # "" THEN LocalFail(made, Err(st.err, call.skills_root))
                ELSE IF order = <<>>
                THEN LocalFail(made, Err("no SKILL.md files found in source", call.source))
                ELSE [made EXCEPT
                         !.pc = "prepare",
                         !.selected = FilterDiscoveredSkills(
                             [i \in 1..Len(order) |->
                                 Discovered(LocalTree(made, st),
                                            Components(parsed.parsed.local_path.val),
                                            order[i])],
                             <<>>)])))

\* fs::create_dir_all of a path the file system may find too long
CreateDirAllBounded(st, path, message) ==
    IF Len(path) > MaxPathLen THEN [st EXCEPT !.err = message]
    ELSE CreateDirAll(st, path, message)

\* prepare_install_target on a path of the file system
PrepareTargetPath(st, path, force) ==
    IF path \in st.dirs \/ path \in DOMAIN st.files
    THEN IF ~force THEN [st EXCEPT !.err = "target already exists"]
         ELSE IF path \in DOMAIN st.files
         THEN [st EXCEPT !.err = "failed to remove existing target"]
         ELSE CreateDirAll(RemoveDirAll(st, path), path, "failed to create target directory")
    ELSE CreateDirAll(st, path, "failed to create target directory")

\* the walk of copy_directory is a stack of open directories: what each held
\* when it was opened and which of its entries the walk has yielded
OpenDir(st, dir) == [dir |-> dir, at_open |-> ChildNames(st, dir), seen |-> {}]

\* the next selected skill: its install name, prepare_install_target, and
\* copy_directory as far as the first entry of its walk, the source itself
LocalPrepare(call) ==
    Let(call.selected[Len(call.installed) + 1], LAMBDA skill :
    Let(PickUniqueInstallName(BaseName(skill), call.used_names), LAMBDA pick :
    Let(call.skills_root \o <<Str(pick.install_name)>>, LAMBDA target_dir :
    Let(PrepareTargetPath(call.st, target_dir, call.force), LAMBDA st :
    Let([call EXCEPT !.used_names = pick.used_names, !.st = [st EXCEPT !.err = ""],
                     !.target_dir = target_dir, !.install_name = pick.install_name],
        LAMBDA prepared :
            IF st.err # "" THEN LocalFail(prepared, Err(st.err, target_dir))
            ELSE IF skill.dir \notin st.dirs
            THEN LocalFail(prepared, Err("failed to walk", skill.dir))
            ELSE [prepared EXCEPT !.pc = "copy", !.walk = <<OpenDir(st, skill.dir)>>])))))

\* the entries the walk may yield next: those of the directory on top of the
\* stack that it has not yielded
WalkNext(call) ==
    ChildNames(call.st, call.walk[Len(call.walk)].dir) \ call.walk[Len(call.walk)].seen

\* the body of the loop of copy_directory for the entry `name` of the
\* directory on top of the stack; a directory is opened before it is yielded
LocalCopyEntry(call, name) ==
    Let(call.walk[Len(call.walk)].dir \o <<name>>, LAMBDA path :
    Let(call.selected[Len(call.installed) + 1].dir, LAMBDA source :
    Let(JoinPath(call.target_dir, SubSeq(path, Len(source) + 1, Len(path))),
        LAMBDA destination :
    Let([call.walk EXCEPT ![Len(call.walk)].seen = @ \cup {name}], LAMBDA walk :
        IF path \in call.st.dirs
        THEN Let(CreateDirAllBounded(call.st, destination,
                                     "failed to create destination directory"),
                 LAMBDA st :
                     IF st.err # ""
                     THEN LocalFail([call EXCEPT !.walk = walk], Err(st.err, destination))
                     ELSE [call EXCEPT !.st = st,
                                       !.walk = Append(walk, OpenDir(call.st, path))])
        ELSE Let(CreateDirAllBounded(call.st, SubSeq(destination, 1, Len(destination) - 1),
                                     "failed to create destination parent"),
                 LAMBDA made :
                     IF made.err # ""
                     THEN LocalFail([call EXCEPT !.walk = walk], Err(made.err, destination))
                     ELSE Let(CreateFile(made, destination, call.st.files[path].text,
                                         "failed to copy file"),
                              LAMBDA st :
                                  IF st.err # ""
                                  THEN LocalFail([call EXCEPT !.walk = walk],
                                                 Err(st.err, destination))
                                  ELSE [call EXCEPT !.st = st, !.walk = walk]))))))

\* whether the walk may be done with the directory on top of the stack:
\* read_dir has given every entry that was there when the directory was
\* opened and is there still; whether it gives one made since is open
WalkMayLeave(call) ==
    Let(call.walk[Len(call.walk)], LAMBDA top :
        top.at_open \cap ChildNames(call.st, top.dir) \subseteq top.seen)

\* the walk leaves a directory; after the last one copy_directory returns,
\* ensure_skill_md_exists checks the target and the skill is pushed
LocalCopyLeave(call) ==
    IF Len(call.walk) > 1
    THEN [call EXCEPT !.walk = SubSeq(call.walk, 1, Len(call.walk) - 1)]
    ELSE IF call.target_dir \o <<SkillFileName>> \notin DOMAIN call.st.files
    THEN LocalFail([call EXCEPT !.walk = <<>>],
                   Err("installed directory is missing SKILL.md at root", call.target_dir))
    ELSE [call EXCEPT !.walk = <<>>, !.pc = "prepare",
                      !.installed = Append(@, [install_name |-> call.install_name,
                                               source |-> call.parsed.original,
                                               version |-> None])]

HubLocalBegin ==
    /\ hub.pc = "start"
    /\ \E order \in FoundOrders(ContentOf(hub.st, Components(Trim(hub.source))),
                                Components(Trim(hub.source)), Components(Trim(hub.source))) :
          hub' = LocalBegin(hub, order)
    /\ UNCHANGED <<fs_roots, mgr_call, memory_file, mem_lock, mem_proc, src_input, src_parsed>>

HubLocalPrepare ==
    /\ hub.pc = "prepare"
    /\ Len(hub.installed) < Len(hub.selected)
    /\ hub' = LocalPrepare(hub)
    /\ UNCHANGED <<fs_roots, mgr_call, memory_file, mem_lock, mem_proc, src_input, src_parsed>>

HubLocalCopyEntry ==
    /\ hub.pc = "copy"
    /\ \E name \in WalkNext(hub) : hub' = LocalCopyEntry(hub, name)
    /\ UNCHANGED <<fs_roots, mgr_call, memory_file, mem_lock, mem_proc, src_input, src_parsed>>

HubLocalCopyLeave ==
    /\ hub.pc = "copy"
    /\ WalkMayLeave(hub)
    /\ hub' = LocalCopyLeave(hub)
    /\ UNCHANGED <<fs_roots, mgr_call, memory_file, mem_lock, mem_proc, src_input, src_parsed>>

\* Ok(installed)
HubLocalReturn ==
    /\ hub.pc = "prepare"
    /\ Len(hub.installed) = Len(hub.selected)
    /\ hub' = LocalFail(hub, Ok(hub.installed))
    /\ UNCHANGED <<fs_roots, mgr_call, memory_file, mem_lock, mem_proc, src_input, src_parsed>>

NextLocal ==
    \/ HubLocalBegin
    \/ HubLocalPrepare
    \/ HubLocalCopyEntry
    \/ HubLocalCopyLeave
    \/ HubLocalReturn

SpecLocal == InitLocal /\ [][NextLocal]_vars

-----------------------------------------------------------------------------
(* What the manager's calls return, stated from the disk alone *)

EntryRefs == UNION {{<<r, i>> : i \in 1..Len(fs_roots[r])} : r \in 1..Len(fs_roots)}

RefPath(ref) == <<ref[1], fs_roots[ref[1]][ref[2]].dir_name>>

\* every parseable entry of the disk, with its metadata
ParsedDisk ==
    LET all == [ref \in EntryRefs |->
                   ParseSkillMd(fs_roots[ref[1]][ref[2]].skill_md, RefPath(ref),
                                RootSources[ref[1]])]
    IN  [ref \in {r \in EntryRefs : all[r].some} |-> all[ref].val.meta]

\* the parseable entries whose name is `requested`, ASCII case ignored
Defining(disk, requested) ==
    {ref \in DOMAIN disk : EqIgnoreAsciiCase(disk[ref].name, requested)}

\* ref is read after other by the merge pass: a later root, or later in its root
ReadAfter(ref, other) ==
    ref[1] > other[1] \/ (ref[1] = other[1] /\ ref[2] > other[2])

LastOf(refs) == CHOOSE ref \in refs : \A other \in refs \ {ref} : ReadAfter(ref, other)

PlatformGatePasses(meta) ==
    meta.platforms = {} \/ meta.platforms \cap {"all", "*", CurrentPlatform} # {}

NotOnPath(meta) == meta.deps \ PathExecutables

GatesPass(meta) == PlatformGatePasses(meta) /\ NotOnPath(meta) = {}

Loaded == mgr_call.op = "load_skill_checked" /\ Trim(mgr_call.arg) # <<>>

\* C1: load_skill_checked selects the parseable entry of the requested name
\* (ASCII case ignored) that the latest root defines, whatever its gates say;
\* it succeeds only with that entry, and when that entry fails the platform or
\* the dependency gate it returns that gate's error, never an entry of an
\* earlier root.
C1_ActivationSelectsLatestRoot ==
    Loaded =>
        LET disk == ParsedDisk
            defining == Defining(disk, Trim(mgr_call.arg))
            selected == LastOf(defining)
        IN  IF defining = {}
            THEN ~mgr_call.result.ok /\ mgr_call.result.err.kind = "notfound"
            ELSE /\ \A other \in defining : selected[1] >= other[1]
                 /\ mgr_call.result.ok = GatesPass(disk[selected])
                 /\ mgr_call.result.ok =>
                        /\ mgr_call.result.meta.dir_path = RefPath(selected)
                        /\ mgr_call.result.meta = disk[selected]
                 /\ ~mgr_call.result.ok =>
                        /\ mgr_call.result.err.kind \in {"platform", "deps"}
                        /\ mgr_call.result.err.name = disk[selected].name

\* C1's case: the latest root's entry fails a gate, an earlier root's entry of
\* the same name passes both, and the call returned the gate's error
C1_Witness ==
    /\ Loaded
    /\ ~mgr_call.result.ok
    /\ mgr_call.result.err.kind \in {"platform", "deps"}
    /\ LET disk == ParsedDisk
           defining == Defining(disk, Trim(mgr_call.arg))
       IN  \E ref \in defining : GatesPass(disk[ref]) /\ ref[1] < LastOf(defining)[1]

\* the entries of name key (lowercased) that pass both gates
Passing(disk, key) ==
    {ref \in DOMAIN disk : ToAsciiLowercase(disk[ref].name) = key /\ GatesPass(disk[ref])}

Listed == mgr_call.op = "discover_skills"

ListedWithKey(key) ==
    {i \in 1..Len(mgr_call.result) : ToAsciiLowercase(mgr_call.result[i].name) = key}

\* C2: discover_skills lists, for every name, the entry of the latest root
\* whose entry of that name passes both gates, with that root's description;
\* an entry that fails a gate is never listed and never displaces a passing
\* entry of an earlier root; a name is listed once, and no other name is listed.
C2_CatalogListsLatestPassing ==
    Listed =>
        LET disk == ParsedDisk
            keys == {ToAsciiLowercase(disk[ref].name) : ref \in DOMAIN disk}
        IN  /\ \A key \in keys :
                  LET passing == Passing(disk, key)
                  IN  IF passing = {}
                      THEN ListedWithKey(key) = {}
                      ELSE /\ Cardinality(ListedWithKey(key)) = 1
                           /\ \A i \in ListedWithKey(key) :
                                 /\ mgr_call.result[i].dir_path = RefPath(LastOf(passing))
                                 /\ mgr_call.result[i].description
                                        = RootSources[LastOf(passing)[1]]
            /\ \A i \in 1..Len(mgr_call.result) :
                  ToAsciiLowercase(mgr_call.result[i].name) \in keys

\* C2's case: the later root's entry of a name fails a gate and the earlier
\* root's entry of that name, which passes, is the one listed
C2_Witness ==
    /\ Listed
    /\ LET disk == ParsedDisk
       IN  \E i \in 1..Len(mgr_call.result) :
              /\ mgr_call.result[i].dir_path[1] = 1
              /\ \E ref \in DOMAIN disk :
                    /\ ref[1] = 2
                    /\ EqIgnoreAsciiCase(disk[ref].name, mgr_call.result[i].name)
                    /\ ~GatesPass(disk[ref])

\* discover_skills listed no entry that declares an executable PATH lacks
NoMissingDepsListed ==
    Listed =>
        LET disk == ParsedDisk
        IN  \A ref \in DOMAIN disk :
                NotOnPath(disk[ref]) # {} =>
                    \A i \in 1..Len(mgr_call.result) :
                        mgr_call.result[i].dir_path # RefPath(ref)

\* C3 as stated: a skill that declares an executable PATH lacks is never
\* listed by discover_skills, and load_skill_checked with its name returns the
\* dependency error naming its missing executables.
C3_MissingDepsAsStated ==
    /\ NoMissingDepsListed
    /\ Loaded =>
          LET disk == ParsedDisk
          IN  \A ref \in Defining(disk, Trim(mgr_call.arg)) :
                  NotOnPath(disk[ref]) # {} =>
                      /\ ~mgr_call.result.ok
                      /\ mgr_call.result.err.kind = "deps"
                      /\ mgr_call.result.err.detail = NotOnPath(disk[ref])

\* C3, amended: a skill that declares an executable PATH lacks is never listed
\* by discover_skills, and load_skill_checked with its name never answers "not
\* found"; when that skill is the entry selected for the name it returns an
\* error: the dependency error naming exactly its missing executables when its
\* platform gate passes, the platform error when its platform gate fails.
C3_MissingDepsExcludedButResolvable ==
    /\ NoMissingDepsListed
    /\ Loaded =>
          LET disk == ParsedDisk
              defining == Defining(disk, Trim(mgr_call.arg))
              selected == LastOf(defining)
          IN  /\ (\E ref \in defining : NotOnPath(disk[ref]) # {}) =>
                     (mgr_call.result.ok \/ mgr_call.result.err.kind # "notfound")
              /\ (defining # {} /\ NotOnPath(disk[selected]) # {}) =>
                     /\ ~mgr_call.result.ok
                     /\ PlatformGatePasses(disk[selected]) =>
                            /\ mgr_call.result.err.kind = "deps"
                            /\ mgr_call.result.err.detail = NotOnPath(disk[selected])
                     /\ ~PlatformGatePasses(disk[selected]) =>
                            mgr_call.result.err.kind = "platform"

\* C3's case: the selected entry declares a missing executable, its platform
\* gate passes, and the call returned the dependency error
C3_Witness ==
    /\ Loaded
    /\ ~mgr_call.result.ok
    /\ mgr_call.result.err.kind = "deps"
    /\ mgr_call.result.err.detail = {"nope"}
    /\ LET disk == ParsedDisk
           defining == Defining(disk, Trim(mgr_call.arg))
       IN  defining # {} /\ NotOnPath(disk[LastOf(defining)]) = {"nope"}

Activated == mgr_call.op = "activate_skill"

\* C4: activate_skill returns Ok with text for every skill_name argument, and
\* a failure (an empty or blank name, an unknown name, a skill that fails a
\* gate or does not load) is a text that starts with "Error: ".
C4_ActivateNeverErrs ==
    Activated =>
        /\ mgr_call.result.ok
        /\ (Trim(mgr_call.arg) = <<>>
              \/ ~LoadSkillChecked(fs_roots, fs_roots, mgr_call.arg).ok) =>
               Head(mgr_call.result.text) = "Error: "

-----------------------------------------------------------------------------
(* What concurrent appends leave in MEMORY.md *)

\* the calls that are between taking the lock and returning
InCycle == {p \in Appenders : mem_proc[p].pc \in {"locked", "read", "created", "written"}}

\* no two read / extend / rewrite cycles overlap: one call at most is in its
\* cycle, and the content a call read is still the content of the file when
\* the call starts to rewrite it
CyclesNeverOverlap ==
    /\ Cardinality(InCycle) <= 1
    /\ \A p \in Appenders : mem_proc[p].pc = "read" => mem_proc[p].existing = memory_file

AllReturned == \A p \in Appenders : mem_proc[p].pc = "done"

InFile(fact) == \E i \in 1..Len(memory_file) : memory_file[i] = Bullet(fact)

FactsOf(p) == {mem_proc[p].facts[i] : i \in 1..Len(mem_proc[p].facts)}

\* C5 as the claim states it: the cycles never overlap and, after all calls
\* return, the file holds every appended fact
C5_NoLostUpdatesAsStated ==
    /\ CyclesNeverOverlap
    /\ AllReturned => \A p \in Appenders : \A f \in FactsOf(p) : InFile(f)

\* C5: the read / extend / rewrite cycles of concurrent appends never overlap;
\* after all calls return the file holds every appended fact, unless some
\* call found the Extracted Notes section, with its new bullets, longer than
\* MAX_EXTRACTED_NOTES_CHARS and dropped the oldest lines of that section
C5_NoLostUpdatesUnlessTrimmed ==
    /\ CyclesNeverOverlap
    /\ AllReturned =>
          \/ \A p \in Appenders : \A f \in FactsOf(p) : InFile(f)
          \/ \E q \in Appenders : mem_proc[q].trimmed

\* two calls, one of each kind, have returned, neither trimmed, and the file
\* holds the facts of both
C5_Witness ==
    /\ MaxAppenders >= 2
    /\ AllReturned
    /\ mem_proc[1].op = "append_extracted_facts" /\ Len(mem_proc[1].facts) = 2
    /\ mem_proc[2].op = "append_remembered_fact"
    /\ \A p \in Appenders : ~mem_proc[p].trimmed
    /\ \A p \in {1, 2} : \A f \in FactsOf(p) : InFile(f)

-----------------------------------------------------------------------------
(* What parse_source returns *)

\* the trimmed source is an absolute path, "." or "..", or starts with "./"
\* or "../"
LooksLikePath(t) ==
    \/ t[1] = "/"
    \/ t = <<".">>
    \/ t = <<".", ".">>
    \/ Len(t) >= 2 /\ t[1] = "." /\ t[2] = "/"
    \/ Len(t) >= 3 /\ t[1] = "." /\ t[2] = "." /\ t[3] = "/"

\* C10: a source that is empty after trimming yields an error; any other
\* source yields a ParsedSource with exactly one of git_url and local_path
\* set, and local_path is set, with git_url, ref_name, subpath and
\* skill_filter unset, exactly when the trimmed source looks like a path
C10_ExactlyOneOfGitUrlAndLocalPath ==
    src_parsed.some =>
        LET t == Trim(src_input)
            r == src_parsed.val
        IN  IF t = <<>> THEN ~r.ok
            ELSE /\ r.ok
                 /\ r.parsed.git_url.some # r.parsed.local_path.some
                 /\ r.parsed.local_path.some <=> LooksLikePath(t)
                 /\ r.parsed.local_path.some =>
                        /\ r.parsed.local_path.val = t
                        /\ ~r.parsed.ref_name.some
                        /\ ~r.parsed.subpath.some
                        /\ ~r.parsed.skill_filter.some

\* a source that starts with "../", surrounded by spaces, was parsed to a
\* local path
C10_Witness ==
    /\ src_parsed.some
    /\ src_input # Trim(src_input)
    /\ StartsWith(Trim(src_input), Chars("../"))
    /\ src_parsed.val.ok
    /\ src_parsed.val.parsed.local_path.some
    /\ ~src_parsed.val.parsed.git_url.some

-----------------------------------------------------------------------------
(* What a call of the hub leaves behind *)

Returned == hub.pc \in {"done", "checked"}

SourceIsLocal == hub.parsed.some /\ hub.parsed.val.local_path.some

\* C6: a temporary directory is created only by a call whose parsed source is
\* not a local path; it exists while that call runs and no longer exists
\* once the call has returned, with a result or with any error; a call on a
\* local path creates none, and so removes none
C6_ScratchDirectoryLifetime ==
    /\ hub.temp_created => hub.parsed.some /\ ~hub.parsed.val.local_path.some
    /\ hub.temp_exists => hub.temp_created /\ ~Returned
    /\ Returned => ~hub.temp_exists
    /\ SourceIsLocal => ~hub.temp_created /\ ~hub.temp_exists

\* an install from a git source has returned the error of a copy that failed,
\* and the temporary directory it made is gone
C6_Witness ==
    /\ hub.pc = "done"
    /\ hub.op = "install_from_skills_source"
    /\ hub.temp_created
    /\ ~hub.temp_exists
    /\ ~hub.result.val.ok
    /\ hub.result.val.err = "failed to copy file"

\* the directory of the source tree that the i-th installed skill came from
SourceDir(i) == InTree(hub, hub.selected[i].dir)

\* C8: an install that finds its target and has no force fails with 'target
\* already exists' and leaves the target as it was before the call; a skill
\* installed over a target that was there needed force, and its directory
\* holds files of the new skill only, nothing that was there before
C8_OverwritePolicy ==
    /\ (Returned /\ ~hub.result.val.ok /\ hub.result.val.err = "target already exists") =>
          /\ ~hub.force
          /\ hub.result.val.value \in DOMAIN hub.before
          /\ hub.result.val.value \in DOMAIN hub.skills_root
          /\ hub.skills_root[hub.result.val.value] = hub.before[hub.result.val.value]
    /\ \A i \in 1..Len(hub.installed) :
          LET n == hub.installed[i].install_name
          IN  n \in DOMAIN hub.before =>
                 /\ hub.force
                 /\ \A f \in DOMAIN hub.skills_root[n] :
                       /\ SourceDir(i) \o f \in DOMAIN hub.tree
                       /\ hub.skills_root[n][f] = hub.tree[SourceDir(i) \o f]

\* a forced install has returned with a skill installed as "a" over the "a"
\* of the root, whose old.txt is gone
C8_Witness ==
    /\ hub.pc = "done"
    /\ hub.result.val.ok
    /\ hub.force
    /\ <<"a">> \in DOMAIN hub.before
    /\ <<"old.txt">> \in DOMAIN hub.before[<<"a">>]
    /\ \E i \in 1..Len(hub.installed) : hub.installed[i].install_name = <<"a">>
    /\ <<"old.txt">> \notin DOMAIN hub.skills_root[<<"a">>]
    /\ <<SkillFileName>> \in DOMAIN hub.skills_root[<<"a">>]

\* C9: the install names given within one call are pairwise distinct, so no
\* two skills of the call have the same target directory
C9_InstallNamesDistinct ==
    \A i, j \in 1..Len(hub.installed) :
        i # j => hub.installed[i].install_name # hub.installed[j].install_name

\* three skills were installed, two with base name "a" and one with base
\* name "a-2", and the last got the name "a-2-2"
C9_Witness ==
    /\ hub.pc = "done"
    /\ hub.result.val.ok
    /\ Len(hub.installed) = 3
    /\ hub.installed[1].install_name = Chars("a")
    /\ hub.installed[2].install_name = Chars("a-2")
    /\ BaseName(hub.selected[2]) = Chars("a")
    /\ BaseName(hub.selected[3]) = Chars("a-2")
    /\ hub.installed[3].install_name = Chars("a-2-2")

(* The round trip from a source, through an install, to the manager *)

RoundTripped == hub.pc = "checked"

\* the SKILL.md, in the source, of the installed skill the manager was asked for
SourceManifest == hub.tree[SourceDir(hub.checked) \o <<SkillFileName>>].text

\* the content of a manifest of the sources after its frontmatter block,
\* trimmed; the manifest without frontmatter is all content
ContentAfterFrontmatter(content) ==
    IF content \in {GoodManifest, GatedManifest} THEN <<"Instructions", SP, "workspace">>
    ELSE <<"Instructions">>

\* where the installed skill lies, as the manager names directories
InstalledPath == <<1, hub.installed[hub.checked].install_name>>

\* what the manager reads from the SKILL.md of the directory n of the root
ManagerReads(n) ==
    IF IsFile(hub.skills_root[n], <<SkillFileName>>)
    THEN ParseSkillMd(hub.skills_root[n][<<SkillFileName>>].text, <<1, n>>, RootSources[1])
    ELSE None

\* the other directories of the root whose manifest gives the name `name`,
\* ASCII case ignored
SameNameElsewhere(name) ==
    {n \in DOMAIN hub.skills_root \ {InstalledPath[2]} :
        ManagerReads(n).some /\ EqIgnoreAsciiCase(ManagerReads(n).val.meta.name, name)}

\* C7 as the claim states it: the manager finds every installed skill under
\* its manifest name, with the body of the source manifest
C7_RoundTripAsStated ==
    RoundTripped =>
        /\ mgr_call.result.ok
        /\ mgr_call.result.meta.name = mgr_call.arg
        /\ mgr_call.result.meta.dir_path = InstalledPath
        /\ mgr_call.result.body = ContentAfterFrontmatter(SourceManifest)

\* C7: the installed SKILL.md is the source's.  When the manager parses it,
\* its platform and dependency gates pass on this host, and no other
\* directory of the root gives the same name, load_skill_checked by the
\* manifest name returns this skill with the body of the source manifest
\* after its frontmatter, trimmed.  When its gates fail instead, the load is
\* an error; and a manifest the manager does not parse is never loaded.
C7_RoundTripWhenLoadable ==
    RoundTripped =>
        LET read == ManagerReads(InstalledPath[2])
        IN  /\ hub.skills_root[InstalledPath[2]][<<SkillFileName>>].text = SourceManifest
            /\ (read.some /\ SameNameElsewhere(read.val.meta.name) = {}) =>
                  IF GatesPass(read.val.meta)
                  THEN /\ mgr_call.result.ok
                       /\ mgr_call.result.meta.name = mgr_call.arg
                       /\ mgr_call.result.meta.dir_path = InstalledPath
                       /\ mgr_call.result.body = ContentAfterFrontmatter(SourceManifest)
                  ELSE ~mgr_call.result.ok
            /\ ~read.some =>
                  ~(mgr_call.result.ok /\ mgr_call.result.meta.dir_path = InstalledPath)

\* a skill cloned from a git source was installed, alone of its name, and
\* the manager loaded it with the body of its source manifest
C7_Witness ==
    /\ RoundTripped
    /\ hub.temp_created
    /\ SourceManifest = GoodManifest
    /\ SameNameElsewhere(<<"a">>) = {}
    /\ mgr_call.arg = <<"a">>
    /\ mgr_call.result.ok
    /\ mgr_call.result.meta.dir_path = InstalledPath
    /\ mgr_call.result.body = <<"Instructions", SP, "workspace">>


-----------------------------------------------------------------------------
(* Where an install writes *)

FromClawhub == hub.op = "install_from_clawhub"

\* the install names the call has picked so far
PickedNames ==
    IF FromClawhub THEN (IF hub.install_name = <<>> THEN {} ELSE {hub.install_name})
    ELSE hub.used_names

\* the paths the call has created or written so far, by extraction or by copy
WrittenPaths == IF FromClawhub THEN hub.st.written ELSE hub.written

\* the path p is the directory dir or lies below it
Inside(p, dir) ==
    /\ Len(p) >= Len(dir)
    /\ StartsWith(p, dir)
    /\ \A i \in 1..Len(p) : p[i] # ".."

\* the name, put after the path of the skills root, names an entry of the
\* skills root itself
SingleComponent(name) ==
    /\ Len(Components(Chars("/skills/") \o name)) = Len(SkillsRootPath) + 1
    /\ Resolve(Components(Chars("/skills/") \o name)) = TargetDir(name)

\* the entry, extracted as it is named, would be put outside target_dir
WouldEscape(name, target_dir) ==
    ~Inside(Resolve(JoinPath(target_dir, Components(Chars(name)))), target_dir)

\* C11: every file or directory that the extraction of install_from_clawhub
\* or the copy of install_from_skills_source created lies inside
\* skills_root/<install_name> for an install name of the call, which is a
\* single path component; a zip entry that would escape the target is
\* skipped, whatever the file system does, without an error and without a
\* write, and after an extraction without error every such entry was skipped
C11_WritesContained ==
    /\ \A name \in PickedNames : SingleComponent(name)
    /\ \A p \in WrittenPaths : \E name \in PickedNames : Inside(p, TargetDir(name))
    /\ (FromClawhub /\ hub.pc = "claw_extract") =>
          \A i \in 1..Len(hub.zip) :
              WouldEscape(hub.zip[i].name, TargetDir(hub.install_name)) =>
                  \A io_ok \in BOOLEAN :
                      ExtractEntry(hub.st, TargetDir(hub.install_name), hub.zip[i], io_ok)
                          = [hub.st EXCEPT !.skipped = hub.st.skipped \cup {hub.zip[i].name}]
    /\ (FromClawhub /\ hub.pc \in {"claw_flatten", "claw_ensure"}) =>
          \A i \in 1..Len(hub.zip) :
              WouldEscape(hub.zip[i].name, TargetDir(hub.install_name)) =>
                  hub.zip[i].name \in hub.st.skipped

\* an install from the registry has returned a skill whose archive held
\* "../evil.md" and "/abs.md" beside SKILL.md: both were skipped, and
\* SKILL.md was written in the target
C11_Witness ==
    /\ FromClawhub
    /\ hub.pc = "done"
    /\ hub.result.val.ok
    /\ hub.st.skipped = {"../evil.md", "/abs.md"}
    /\ TargetDir(hub.install_name) \o <<SkillFileName>> \in hub.st.written

(* What a successful install leaves in the target *)

\* the install names of the InstalledSkill values a call returned
ReturnedNames ==
    IF ~(Returned /\ hub.result.val.ok) THEN {}
    ELSE IF FromClawhub THEN {hub.result.val.value.install_name}
    ELSE {hub.installed[i].install_name : i \in 1..Len(hub.installed)}

\* the directory skills_root/<name> holds a regular file SKILL.md at its root
HasSkillMd(name) ==
    /\ name \in DOMAIN hub.skills_root
    /\ <<SkillFileName>> \in DOMAIN hub.skills_root[name]
    /\ hub.skills_root[name][<<SkillFileName>>].kind = "file"

\* C12: every InstalledSkill that install_from_clawhub or
\* install_from_skills_source returns with success has, at the return, a
\* regular file SKILL.md at the root of its path; a call that has made a
\* target which lacks SKILL.md at its root after the extraction and flatten,
\* or after the copy, returns an error; and the error 'missing SKILL.md'
\* names a target that lacks it
C12_InstalledHasSkillMd ==
    /\ \A name \in ReturnedNames : HasSkillMd(name)
    /\ Returned =>
          ((\E name \in PickedNames : name \in DOMAIN hub.skills_root /\ ~HasSkillMd(name))
              => ~hub.result.val.ok)
    /\ (Returned /\ ~hub.result.val.ok
          /\ hub.result.val.err = "installed directory is missing SKILL.md at root") =>
          /\ hub.result.val.value \in DOMAIN hub.skills_root
          /\ ~HasSkillMd(hub.result.val.value)

\* an install from the registry has returned a skill whose archive had its
\* SKILL.md in the directory pkg only: after the flatten it is at the root
C12_Witness ==
    /\ FromClawhub
    /\ hub.pc = "done"
    /\ hub.result.val.ok
    /\ \A i \in 1..Len(hub.zip) : hub.zip[i].name # "SKILL.md"
    /\ \E i \in 1..Len(hub.zip) : hub.zip[i].name = "pkg/SKILL.md"
    /\ HasSkillMd(hub.install_name)

(* What a failed batch leaves behind *)

\* the errors with which the install of one selected skill fails
SkillFailures ==
    {"target already exists", "failed to copy file",
     "installed directory is missing SKILL.md at root"}

\* C13: when install_from_skills_source returns the error of its k-th
\* selected skill (target exists without force, copy failure, or missing
\* SKILL.md), the k-1 skills installed before it are still in the skills
\* root, each with the regular files of its source directory: nothing is
\* rolled back, and the call returns an error, not the skills it installed
C13_NoBatchAtomicity ==
    (/\ Returned
     /\ hub.op = "install_from_skills_source"
     /\ ~hub.result.val.ok
     /\ hub.result.val.err \in SkillFailures) =>
        /\ Len(hub.installed) < Len(hub.selected)
        /\ \A i \in 1..Len(hub.installed) :
              LET name == hub.installed[i].install_name
              IN  /\ name \in DOMAIN hub.skills_root
                  /\ hub.skills_root[name] = CopiedFiles(hub.tree, SourceDir(i))
                  /\ <<SkillFileName>> \in DOMAIN hub.skills_root[name]

\* a batch without force, into the root that holds "a", has installed its
\* first skill as "a-2" and failed on the second, whose target "a" exists;
\* the directory "a-2", which the call made, is in the root
C13_Witness ==
    /\ hub.pc = "done"
    /\ hub.op = "install_from_skills_source"
    /\ ~hub.result.val.ok
    /\ hub.result.val.err = "target already exists"
    /\ Len(hub.installed) = 1
    /\ hub.installed[1].install_name \notin DOMAIN hub.before
    /\ hub.installed[1].install_name \in DOMAIN hub.skills_root

-----------------------------------------------------------------------------
(* sanitize_name as a pipeline *)

\* stage 2 on a lowercased text: every character of [a-z0-9._] stays, and of
\* every maximal run of other characters the first becomes '-', the rest go
ReplaceRuns(lower) ==
    LET first_of_run(i) == ~IsNameChar(lower[i]) /\ (i = 1 \/ IsNameChar(lower[i - 1]))
        kept == SelectSeq([i \in 1..Len(lower) |-> i],
                          LAMBDA i : IsNameChar(lower[i]) \/ first_of_run(i))
    IN  [k \in 1..Len(kept) |-> IF IsNameChar(lower[kept[k]]) THEN lower[kept[k]] ELSE "-"]

\* stage 3: what lies between the first and the last character that is
\* neither '.' nor '-'
StripDotsAndDashes(text) ==
    LET inner == {i \in 1..Len(text) : text[i] \notin {".", "-"}}
    IN  IF inner = {} THEN <<>>
        ELSE SubSeq(text, CHOOSE i \in inner : \A j \in inner : i <= j,
                          CHOOSE i \in inner : \A j \in inner : i >= j)

\* stage 4
FallbackOrPrefix(text) ==
    IF text = <<>> THEN Chars("unnamed-skill")
    ELSE [i \in 1..(IF Len(text) > 255 THEN 255 ELSE Len(text)) |-> text[i]]

SanitizePipeline(name) ==
    FallbackOrPrefix(StripDotsAndDashes(ReplaceRuns(ToAsciiLowercase(name))))

SanitizeDone == hub.op = "sanitize_name" /\ hub.pc = "done"

\* C14: sanitize_name returns what the pipeline gives: ASCII-lowercase; each
\* maximal run of characters outside [a-z0-9._] replaced by one '-'; all
\* leading and trailing '.' and '-' stripped; 'unnamed-skill' when nothing is
\* left, else the first 255 characters; so '  Hello World!  ' gives
\* 'hello-world', '../My_Skill' gives 'my_skill', '...' gives the fallback
C14_SanitizeIsPipeline ==
    SanitizeDone =>
        /\ hub.result.val = SanitizePipeline(hub.arg)
        /\ hub.arg = Chars("  Hello World!  ") => hub.result.val = Chars("hello-world")
        /\ hub.arg = Chars("../My_Skill") => hub.result.val = Chars("my_skill")
        /\ hub.arg = Chars("...") => hub.result.val = Chars("unnamed-skill")

\* the name "../" and 255 times 'B' and "!!c", whose sanitized text
\* "bbb...b-c" has 257 characters, has been cut to its first 255
C14_Witness ==
    /\ SanitizeDone
    /\ Len(hub.arg) > 255
    /\ hub.arg[1] = "."
    /\ hub.result.val = Repeat("b", 255)

(* normalize_filters *)

NormalizeDone == hub.op = "normalize_filters" /\ hub.pc = "done"

\* the text after the last '@' of a text, or the whole text
AfterLastAt(text) ==
    LET ats == {i \in 1..Len(text) : text[i] = "@"}
    IN  IF ats = {} THEN text
        ELSE SubSeq(text, (CHOOSE i \in ats : \A j \in ats : j <= i) + 1, Len(text))

\* the entries the claim describes: one for every input that is not blank
StatedFilters(filters) ==
    LET kept == SelectSeq(filters, LAMBDA raw : Trim(raw) # <<>>)
    IN  [i \in 1..Len(kept) |-> ToAsciiLowercase(Trim(AfterLastAt(Trim(kept[i]))))]

\* C15: normalize_filters returns, in input order, one entry per input that
\* is not blank, each the text after the last '@' (or the whole string),
\* trimmed and lowercased, and the output never contains an empty string
C15_NormalizedFiltersNotEmpty ==
    NormalizeDone =>
        /\ hub.result.val = StatedFilters(hub.arg)
        /\ \A i \in 1..Len(hub.result.val) : hub.result.val[i] # <<>>

-----------------------------------------------------------------------------
(* The owner/repo shorthand *)

\* the position of the last '@' that is not the first character, or 0
CutAt(t) ==
    LET ats == {i \in 2..Len(t) : t[i] = "@"}
    IN  IF ats = {} THEN 0 ELSE CHOOSE i \in ats : \A j \in ats : j <= i

\* the text before the cut, or the whole text
BeforeCut(t) == IF CutAt(t) = 0 THEN t ELSE SubSeq(t, 1, CutAt(t) - 1)

\* the positions at which a segment between '/' starts
SegmentStarts(h) == {i \in 1..Len(h) : h[i] # "/" /\ (i = 1 \/ h[i - 1] = "/")}

\* the n-th segment: from its start to the character before the next '/'
Segment(h, n) ==
    LET start == CHOOSE i \in SegmentStarts(h) :
                     Cardinality({j \in SegmentStarts(h) : j < i}) = n - 1
        end == CHOOSE j \in start..Len(h) :
                   /\ \A k \in start..j : h[k] # "/"
                   /\ j = Len(h) \/ h[j + 1] = "/"
    IN  SubSeq(h, start, end)

RECURSIVE SegmentsFrom(_, _)
\* the segments from the n-th on, with one '/' between two of them
SegmentsFrom(h, n) ==
    IF n = Cardinality(SegmentStarts(h)) THEN Segment(h, n)
    ELSE Segment(h, n) \o <<"/">> \o SegmentsFrom(h, n + 1)

\* no "://" in the text
NoScheme(t) == \A i \in 1..(Len(t) - 2) : SubSeq(t, i, i + 2) # <<":", "/", "/">>

\* the inputs of the claim, trimmed
IsShorthand(t) ==
    /\ t # <<>>
    /\ ~LooksLikePath(t)
    /\ NoScheme(t)
    /\ ~(Len(t) >= 4 /\ SubSeq(t, 1, 4) = <<"g", "i", "t", "@">>)
    /\ Cardinality(SegmentStarts(BeforeCut(t))) >= 2
    /\ \A i \in 1..Len(Segment(BeforeCut(t), 1)) : Segment(BeforeCut(t), 1)[i] # "."
    /\ Segment(BeforeCut(t), 2)[1] # "."

\* C16: for an input that is no local path, has no '://', does not start
\* with 'git@', and, cut at the last '@' (index > 0), splits on '/' into two or
\* more non-empty segments whose first holds no '.' and whose second does
\* not start with '.', parse_source yields git_url =
\* https://github.com/{owner}/{repo}.git, subpath = the other segments joined
\* by '/' (unset when there are none), skill_filter = the trimmed text after
\* that '@' when it is not empty (unset otherwise), no ref_name, no local_path
C16_OwnerRepoShorthand ==
    (src_parsed.some /\ IsShorthand(Trim(src_input))) =>
        LET t == Trim(src_input)
            h == BeforeCut(t)
            after == IF CutAt(t) = 0 THEN <<>> ELSE Trim(SubSeq(t, CutAt(t) + 1, Len(t)))
            r == src_parsed.val
        IN  /\ r.ok
            /\ r.parsed.git_url = Some(Chars("https://github.com/") \o Segment(h, 1)
                                       \o <<"/">> \o Segment(h, 2) \o Chars(".git"))
            /\ r.parsed.subpath = IF Cardinality(SegmentStarts(h)) > 2
                                  THEN Some(SegmentsFrom(h, 3)) ELSE None
            /\ r.parsed.skill_filter = IF after # <<>> THEN Some(after) ELSE None
            /\ r.parsed.ref_name = None
            /\ r.parsed.local_path = None
            /\ src_input = Chars(TestSource) =>
                  /\ r.parsed.git_url
                        = Some(Chars("https://github.com/vercel-labs/agent-skills.git"))
                  /\ r.parsed.skill_filter = Some(Chars("web-design"))
                  /\ r.parsed.subpath = None

\* a shorthand with a path below the repository and a filter was parsed
C16_Witness ==
    /\ src_parsed.some
    /\ IsShorthand(Trim(src_input))
    /\ src_parsed.val.ok
    /\ src_parsed.val.parsed.git_url = Some(Chars("https://github.com/o/r.git"))
    /\ src_parsed.val.parsed.subpath = Some(Chars("tree/m"))
    /\ src_parsed.val.parsed.skill_filter = Some(Chars("a"))

-----------------------------------------------------------------------------
(* What discover_skills finds *)

\* the directory names of the denylist
NoiseNames ==
    {".git", "node_modules", "dist", "build", "__pycache__", "target", ".venv", "venv"}

\* the directories at or below the search root that hold a regular file
\* SKILL.md and have no directory of a denylisted name on the way from the
\* search root, the root itself not counted
DirsToFind ==
    LET root == InTree(hub, SearchRoot(hub))
        manifests == {f \in DOMAIN hub.tree :
                         /\ f[Len(f)] = SkillFileName
                         /\ hub.tree[f].kind = "file"
                         /\ StartsWith(f, root)
                         /\ \A i \in (Len(root) + 1)..(Len(f) - 1) : f[i] \notin NoiseNames}
    IN  {hub.source_root \o SubSeq(f, 1, Len(f) - 1) : f \in manifests}

\* C17: discover_skills(root) returns exactly once each directory at or
\* below root that contains a regular file SKILL.md and has no denylisted
\* directory name strictly below root on its path, and no other directory,
\* whatever the name of the search root itself
C17_DiscoveryComplete ==
    (hub.op \in {"install_from_skills_source", "list_from_skills_source"}
     /\ hub.discovered.some) =>
        LET found == hub.discovered.val
        IN  /\ {found[i].dir : i \in 1..Len(found)} = DirsToFind
            /\ \A i, j \in 1..Len(found) : i # j => found[i].dir # found[j].dir

-----------------------------------------------------------------------------
(* What load_skill_checked returns when the disk changes under it *)

\* C18: whenever load_skill_checked returns success, the metadata it returns
\* (platforms, deps) passed the platform gate and the dependency gate, also
\* when the SKILL.md of the skill was rewritten between the merge pass and
\* the final read
C18_ReturnsGatedManifest ==
    (mgr_call.op = "load_skill_checked" /\ mgr_call.pc = "done" /\ mgr_call.result.ok) =>
        GatesPass(mgr_call.result.meta)

-----------------------------------------------------------------------------
(* What a failed install from the registry leaves behind *)

\* the call has returned an error of the download, the extraction, the
\* flatten or the SKILL.md validation
FailedAfterPrepare ==
    /\ FromClawhub
    /\ hub.pc = "done"
    /\ ~hub.result.val.ok
    /\ hub.result.val.err \in AfterPrepareErrors

\* the files of the entries of the archive
ZipFiles == {RegularFile(hub.zip[i].text) : i \in 1..Len(hub.zip)}

\* C19: install_from_clawhub prepares its target before the download (at the
\* download the target exists and is empty, whatever was there before); when
\* the download, the extraction or the SKILL.md validation fails, the target
\* is still in the skills root, with what was extracted so far (every file in
\* it was written by this call, from an entry of the archive) and nothing of
\* what it held before the call; the same request made again without force
\* fails with 'target already exists' and changes nothing, and made again with
\* force it passes the preparation
C19_NoRollback ==
    /\ (FromClawhub /\ hub.pc = "claw_download") =>
          /\ hub.install_name \in DOMAIN hub.skills_root
          /\ hub.skills_root[hub.install_name] = EmptyDir
    /\ FailedAfterPrepare =>
          /\ hub.install_name \in DOMAIN hub.skills_root
          /\ hub.skills_root[hub.install_name]
                = ContentOf(hub.st, TargetDir(hub.install_name))
          /\ \A f \in DOMAIN hub.skills_root[hub.install_name] :
                hub.skills_root[hub.install_name][f] \in ZipFiles
          /\ \A f \in DOMAIN hub.skills_root[hub.install_name] :
                \E w \in hub.st.written :
                    /\ Len(w) >= Len(f)
                    /\ SubSeq(w, Len(w) - Len(f) + 1, Len(w)) = f
                    /\ \/ w = TargetDir(hub.install_name) \o f
                       \/ hub.result.val.err = "failed to move extracted content"
    /\ (FromClawhub /\ hub.first.some /\ hub.pc # "claw_start") =>
          IF hub.force
          THEN hub.pc = "done" => hub.result.val.err # "target already exists"
          ELSE /\ hub.pc = "done"
               /\ ~hub.result.val.ok
               /\ hub.result.val.err = "target already exists"
               /\ hub.skills_root = hub.before

\* a forced install over the "a" of the root failed in the extraction after
\* it had written a file; the request made again without force has failed
\* with 'target already exists', and the target holds the extracted file and
\* no old.txt
C19_Witness ==
    /\ FromClawhub
    /\ hub.first.some
    /\ hub.first.val.force
    /\ <<"a">> \in DOMAIN hub.first.val.before
    /\ hub.first.val.err = "failed to create file"
    /\ ~hub.force
    /\ hub.pc = "done"
    /\ hub.result.val.err = "target already exists"
    /\ hub.skills_root[<<"a">>] # EmptyDir
    /\ <<"old.txt">> \notin DOMAIN hub.skills_root[<<"a">>]

-----------------------------------------------------------------------------
(* Two installs into one target *)

\* the call p has returned Ok
RaceOk(p) == hub.calls[p].pc = "done" /\ hub.calls[p].result.val.ok

\* the names of the files the call p writes
RaceNames(p) == {hub.calls[p].payload[i].name : i \in 1..Len(hub.calls[p].payload)}

\* the file of that name in the payload of p
RaceFile(p, name) ==
    RegularFile((CHOOSE e \in Range(hub.calls[p].payload) : e.name = name).text)

\* C20: nothing orders two installs with force=false: a call ends with
\* 'target already exists' exactly when the target was on disk at its own test,
\* whatever the other call is doing; two calls that both tested the same
\* absent target both go on, and once both have returned the target holds the
\* files of both, each name with the text of one of its writers
C20_InstallsNotSerialized ==
    hub.op = "concurrent_installs" =>
        /\ \A p \in Installers :
              hub.calls[p].pc # "check" =>
                  ((hub.calls[p].pc = "done"
                        /\ hub.calls[p].result.val.err = "target already exists")
                    <=> hub.calls[p].install_name \in DOMAIN hub.calls[p].before)
        /\ (/\ \A p \in Installers : hub.calls[p].pc = "done"
            /\ hub.calls[1].install_name = hub.calls[2].install_name
            /\ \A p \in Installers :
                  hub.calls[p].install_name \notin DOMAIN hub.calls[p].before)
           => Let(hub.skills_root[hub.calls[1].install_name], LAMBDA dir :
                 /\ DOMAIN dir = RaceNames(1) \cup RaceNames(2)
                 /\ \A name \in DOMAIN dir :
                       \E p \in Installers :
                           name \in RaceNames(p) /\ dir[name] = RaceFile(p, name))

\* both calls passed the test of the same target, which neither found, both
\* returned Ok, and the target holds the SKILL.md of one and the notes.md of
\* the other
C20_Witness ==
    /\ hub.op = "concurrent_installs"
    /\ RaceOk(1)
    /\ RaceOk(2)
    /\ hub.calls[1].install_name = hub.calls[2].install_name
    /\ \A p \in Installers : hub.calls[p].install_name \notin DOMAIN hub.calls[p].before
    /\ <<"notes.md">> \in RaceNames(1) \cap RaceNames(2)
    /\ <<SkillFileName>> \in RaceNames(1) \cap RaceNames(2)
    /\ hub.skills_root[hub.calls[1].install_name][<<SkillFileName>>] = RaceFile(1, <<SkillFileName>>)
    /\ hub.skills_root[hub.calls[1].install_name][<<"notes.md">>] = RaceFile(2, <<"notes.md">>)

-----------------------------------------------------------------------------
(* The names a batch installs under *)

\* the text sanitize_name has before it tests for the empty string
SanitizedText(name) ==
    TrimEndIn(TrimStartIn(SanitizePieces(ToAsciiLowercase(name), 1), {".", "-"}), {".", "-"})

\* the base name as stated: the sanitized frontmatter name when it is present,
\* not empty and does not sanitize to nothing, the sanitized directory name
\* in every other case
StatedBaseName(skill) ==
    IF skill.name.some /\ skill.name.val # <<>> /\ SanitizedText(skill.name.val) # <<>>
    THEN SanitizeName(skill.name.val)
    ELSE SanitizeName(Chars(DirNameOr(skill.dir, "skill")))

\* C21: the base name of a skill is the sanitized frontmatter name when the
\* name is present and not empty, and the sanitized base name of the skill's
\* directory in every other case (name absent, empty, or sanitizing to nothing)
C21_BaseNameDerivation ==
    (hub.op = "base_name" /\ hub.pc = "done") => hub.result.val = StatedBaseName(hub.arg)

\* the install names of the skills before skill i of the batch
NamesBefore(i) == {hub.result[j] : j \in 1..(i - 1)}

\* how many of the first i skills of the batch have the base name of skill i
Occurrence(i) == Cardinality({j \in 1..i : hub.arg[j] = hub.arg[i]})

\* b-k for the smallest k >= 2 such that b-k is not among `used`
FirstFreeSuffix(b, used) ==
    LET k == CHOOSE n \in 2..(Cardinality(used) + 2) :
                 /\ b \o <<"-">> \o Decimal(n) \notin used
                 /\ \A m \in 2..(n - 1) : b \o <<"-">> \o Decimal(m) \in used
    IN  b \o <<"-">> \o Decimal(k)

\* C22 as stated: the first skill of a batch whose base name is b is installed
\* as exactly b, and the k-th (k >= 2) as b-k', k' the smallest integer >= 2
\* such that b-k' is not yet used in the batch
C22_FirstOccurrenceAsIs ==
    hub.op = "pick_names" =>
        \A i \in 1..Len(hub.result) :
            hub.result[i] = IF Occurrence(i) = 1 THEN hub.arg[i]
                            ELSE FirstFreeSuffix(hub.arg[i], NamesBefore(i))

\* C22: a skill whose base name b is not yet used in the batch is installed
\* as exactly b; one whose base name is in use, as the base name of an earlier
\* skill or as the suffixed name given to one, is installed as b-k', k' the
\* smallest integer >= 2 such that b-k' is not yet used; the names in use are
\* the names installed so far
C22_PickedNames ==
    hub.op = "pick_names" =>
        /\ hub.used_names = NamesBefore(Len(hub.result) + 1)
        /\ \A i \in 1..Len(hub.result) :
              hub.result[i] = IF hub.arg[i] \notin NamesBefore(i) THEN hub.arg[i]
                              ELSE FirstFreeSuffix(hub.arg[i], NamesBefore(i))

\* the batch a, a, a-2 is installed as a, a-2, a-2-2: the first skill whose
\* base name is a-2 does not get a-2
C22_Witness ==
    /\ hub.op = "pick_names"
    /\ hub.pc = "done"
    /\ hub.arg = <<Chars("a"), Chars("a"), Chars("a-2")>>
    /\ hub.result = <<Chars("a"), Chars("a-2"), Chars("a-2-2")>>

-----------------------------------------------------------------------------
(* The order of a listing *)

\* the skill has no name, or an empty one
Nameless(skill) == ~skill.name.some \/ skill.name.val = <<>>

\* the stated order: by name ascending, skills without a name last, ties by
\* directory path
StatedBefore(a, b) ==
    IF Nameless(a) # Nameless(b) THEN Nameless(b)
    ELSE IF Nameless(a) \/ a.name.val = b.name.val
    THEN StrLess(Chars(PathText(a.dir)), Chars(PathText(b.dir)))
    ELSE StrLess(a.name.val, b.name.val)

RECURSIVE StatedSort(_)
\* the skills of a set in the stated order
StatedSort(set) ==
    IF set = {} THEN <<>>
    ELSE LET least == CHOOSE s \in set : \A t \in set \ {s} : StatedBefore(s, t)
         IN  <<least>> \o StatedSort(set \ {least})

\* the listing of the discovered skills in the stated order
StatedListing(discovered) ==
    LET sorted == StatedSort(Range(discovered))
    IN  [i \in 1..Len(sorted) |-> [directory |-> DirNameOr(sorted[i].dir, ""),
                                   name |-> sorted[i].name]]

\* C23: list_from_skills_source returns the discovered skills sorted by
\* frontmatter name ascending, the skills without a name last, ties broken by
\* directory path, whatever the order of the walk
C23_ListedNamelessLast ==
    (hub.op = "list_from_skills_source" /\ hub.pc = "done" /\ hub.result.val.ok)
        => hub.result.val.value = StatedListing(hub.discovered.val)

-----------------------------------------------------------------------------
(* The two parsers of a SKILL.md *)

\* both parsers were run on a SKILL.md
ParsedByBoth == hub.op = "parse_frontmatter" /\ hub.pc = "done"

\* the line is exactly `text`, its line end apart
IsExactly(line, text) == TrimEndIn(line, {CR, LF}) = <<text>>

\* the stated frontmatter block of a SKILL.md: the lines between a first line
\* that is exactly "---" and the first later line that is exactly "---" or
\* "..."; None when there is no such pair of lines
StatedBlock(content) ==
    LET chunks == SplitInclusive(content)
        closers == {i \in 2..Len(chunks) :
                       IsExactly(chunks[i], "---") \/ IsExactly(chunks[i], "...")}
    IN  IF chunks = <<>> \/ ~IsExactly(chunks[1], "---") \/ closers = {} THEN None
        ELSE Some(Lines(Concat(SubSeq(chunks, 2,
                                      (CHOOSE i \in closers : \A j \in closers : i <= j) - 1))))

\* the lines of the block a parser found
BlockLines(block) == IF block.some THEN Some(Lines(block.val)) ELSE None

\* C24: the installer's parser and the manager's parser accept the same
\* manifests and delimit the same frontmatter block: from a first line that
\* is exactly "---" to the first later line that is exactly "---" or "..."
C24_DelimiterAgreement ==
    ParsedByBoth =>
        /\ BlockLines(hub.result.val.installer) = BlockLines(hub.result.val.runtime)
        /\ BlockLines(hub.result.val.installer) = StatedBlock(hub.arg)

-----------------------------------------------------------------------------
(* The flatten of a single nested skill directory *)

\* the child directories and the child files of a directory
ChildDirs(st, dir) == {n \in ChildNames(st, dir) : dir \o <<n>> \in st.dirs}
ChildFiles(st, dir) == {n \in ChildNames(st, dir) : dir \o <<n>> \in DOMAIN st.files}

\* the target has no SKILL.md, no child file and exactly one child directory,
\* and that directory holds SKILL.md
FlattenApplies(st, target_dir) ==
    /\ target_dir \o <<SkillFileName>> \notin DOMAIN st.files
    /\ ChildFiles(st, target_dir) = {}
    /\ Cardinality(ChildDirs(st, target_dir)) = 1
    /\ \A n \in ChildDirs(st, target_dir) :
          target_dir \o <<n, SkillFileName>> \in DOMAIN st.files

\* everything that was below `child` in `before` is below target_dir in
\* `after`, and nothing of `child` is left but what was moved onto its path
Promoted(before, after, target_dir, child) ==
    /\ \A f \in DOMAIN before.files :
          (StartsWith(f, child)) =>
              /\ Moved(f, child, target_dir) \in DOMAIN after.files
              /\ after.files[Moved(f, child, target_dir)] = before.files[f]
    /\ \A d \in before.dirs :
          (StartsWith(d, child) /\ d # child) => Moved(d, child, target_dir) \in after.dirs
    /\ \A p \in DOMAIN after.files \cup after.dirs :
          StartsWith(p, child) =>
              \E q \in DOMAIN before.files \cup before.dirs :
                  StartsWith(q, child) /\ q # child /\ Moved(q, child, target_dir) = p

\* C25: when the target has no SKILL.md, no child file and exactly one child
\* directory that holds SKILL.md, the flatten succeeds and leaves every former
\* child of that directory directly in the target and the directory gone,
\* whatever the names are; in every other case it succeeds and leaves the
\* target as it was
C25_FlattenPromotes ==
    [][(hub.op = "install_from_clawhub" /\ hub.pc = "claw_flatten") =>
          /\ hub'.pc = "claw_ensure"
          /\ IF FlattenApplies(hub.st, TargetDir(hub.install_name))
             THEN \A n \in ChildDirs(hub.st, TargetDir(hub.install_name)) :
                     Promoted(hub.st, hub'.st, TargetDir(hub.install_name),
                              TargetDir(hub.install_name) \o <<n>>)
             ELSE hub'.st = hub.st]_vars

-----------------------------------------------------------------------------
(* What install_from_skills_sh selects and installs *)

\* the install was delegated by install_from_skills_sh
FromSkillsSh == hub.op = "install_from_skills_source" /\ src_parsed.some

\* the query, the results and the selected result of the delegating call
ShQuery == src_parsed.val.query
ShResults == src_parsed.val.results
ShSelected == src_parsed.val.selected

\* the first result whose id, or whose name, equals the query, ASCII case apart
FirstById(i) ==
    /\ EqIgnoreAsciiCase(ShResults[i].slug, ShQuery)
    /\ \A j \in 1..(i - 1) : ~EqIgnoreAsciiCase(ShResults[j].slug, ShQuery)
FirstByName(i) ==
    /\ EqIgnoreAsciiCase(ShResults[i].name, ShQuery)
    /\ \A j \in 1..(i - 1) : ~EqIgnoreAsciiCase(ShResults[j].name, ShQuery)

\* the selection and the delegation, as stated
SelectedAsStated ==
    /\ IF \E i \in 1..Len(ShResults) : FirstById(i)
       THEN \E i \in 1..Len(ShResults) : FirstById(i) /\ ShSelected = ShResults[i]
       ELSE IF \E i \in 1..Len(ShResults) : FirstByName(i)
       THEN \E i \in 1..Len(ShResults) : FirstByName(i) /\ ShSelected = ShResults[i]
       ELSE ShSelected = ShResults[1]
    /\ hub.skill_filters = <<ShSelected.name>>
    /\ hub.source = IF Trim(ShSelected.source) = <<>> THEN ShSelected.slug
                    ELSE ShSelected.source

\* the directory base name or the frontmatter name of the skill is `text`,
\* ASCII case apart
NamedLike(skill, text) ==
    \/ EqIgnoreAsciiCase(Chars(DirNameOr(skill.dir, "")), text)
    \/ skill.name.some /\ EqIgnoreAsciiCase(skill.name.val, text)

\* what a filter text asks for: its text after the last '@', trimmed
AskedBy(text) ==
    LET trimmed == Trim(text)
        at == RFind(trimmed, "@")
    IN  Trim(IF at = 0 THEN trimmed ELSE SubSeq(trimmed, at + 1, Len(trimmed)))

\* the texts the delegated install filters by: the name of the selected
\* result unless it is blank, and the filter the source string carries
AskedTexts ==
    (IF Trim(ShSelected.name) = <<>> THEN {} ELSE {AskedBy(ShSelected.name)})
    \cup (IF hub.parsed.val.skill_filter.some THEN {AskedBy(hub.parsed.val.skill_filter.val)}
          ELSE {})

\* the delegated install has chosen its skills
ShChosen == FromSkillsSh /\ hub.pc = "install"

\* C26 as stated: the selection is by id, then by name, then the first
\* result; the install is given the name of the selected result as filter, so
\* only skills whose directory base name or frontmatter name equals that name
\* are installed
C26_OnlyNamedSkills ==
    /\ FromSkillsSh => SelectedAsStated
    /\ ShChosen => \A i \in 1..Len(hub.selected) : NamedLike(hub.selected[i], ShSelected.name)

\* C26: the selection and the delegation are as stated.  The skills the
\* install chooses are all the discovered skills when the name of the selected
\* result is blank and the source carries no filter, or when a filter asks for
\* "*"; otherwise they are the discovered skills whose directory base name or
\* trimmed frontmatter name equals, ASCII case apart, the text one of the
\* filters asks for: the name of the selected result after its last '@', or
\* the filter of the source string
C26_SelectedAndFiltered ==
    /\ FromSkillsSh => SelectedAsStated
    /\ ShChosen =>
          hub.selected =
              SelectSeq(hub.discovered.val, LAMBDA skill :
                  \/ AskedTexts = {}
                  \/ <<"*">> \in AskedTexts
                  \/ \E text \in AskedTexts :
                        \/ EqIgnoreAsciiCase(Chars(DirNameOr(skill.dir, "")), text)
                        \/ EqIgnoreAsciiCase(Trim(IF skill.name.some THEN skill.name.val
                                                  ELSE <<>>), text))

\* a result without a name was selected as the first of the list, no id and
\* no name being the query, and the install put every skill of the
\* repository, three of them, into the skills root
C26_Witness ==
    /\ FromSkillsSh
    /\ hub.pc = "done"
    /\ hub.result.val.ok
    /\ ShSelected.name = <<>>
    /\ ShSelected = ShResults[1]
    /\ ShQuery = Chars("zz")
    /\ Len(hub.installed) = 3
-----------------------------------------------------------------------------
(* What an install from a local path does to the source directory *)

\* the directory of the local source of the call
LocalSourceDir == Components(Trim(hub.source))

\* a path at or below the source directory
UnderSource(path) == StartsWith(path, LocalSourceDir)

\* the source directory holds what it held before the call: each of its
\* files with the same content, and each of its directories
SourceKept ==
    /\ \A f \in DOMAIN hub.before.files :
          UnderSource(f) => f \in DOMAIN hub.st.files /\ hub.st.files[f] = hub.before.files[f]
    /\ \A d \in hub.before.dirs : UnderSource(d) => d \in hub.st.dirs

\* C27: an install from a local path never deletes or changes a file or a
\* directory that was under the source directory, wherever the skills root
\* lies and whatever force is.
C27_SourceReadOnly == hub.op = "install_from_skills_source" => SourceKept

\* the same without force: what was under the source directory stays
C27_SourceKeptWithoutForce ==
    hub.op = "install_from_skills_source" /\ ~hub.force => SourceKept

\* an install without force has returned Ok with the skills root below the
\* source directory, and the source holds a file it did not hold before
C27_Witness ==
    /\ hub.pc = "done"
    /\ hub.result.val.ok
    /\ ~hub.force
    /\ UnderSource(hub.skills_root)
    /\ \E f \in DOMAIN hub.st.files : UnderSource(f) /\ f \notin DOMAIN hub.before.files

-----------------------------------------------------------------------------
(* What read_long_term returns while appends run *)

\* the content that read_long_term returned holds the bullet of the fact
InRead(fact) == \E i \in 1..Len(hub.content) : hub.content[i] = Bullet(fact)

\* no append has dropped lines of the Extracted Notes section
NoneTrimmed == \A p \in Appenders : ~mem_proc[p].trimmed

\* C28: the content read_long_term returns holds every fact of the appends
\* that had returned when the read started (appends that trimmed the
\* Extracted Notes section apart).
C28_ReaderSeesCompletedAppends ==
    hub.op = "read_long_term" /\ hub.pc = "done" /\ NoneTrimmed =>
        \A p \in hub.returned_before : \A f \in FactsOf(p) : InRead(f)

\* the same for a read that is made while no append holds the guard
C28_ReaderOutsideCycles ==
    hub.op = "read_long_term" /\ hub.pc = "done" /\ NoneTrimmed /\ hub.guard_holder = 0 =>
        \A p \in hub.returned_before : \A f \in FactsOf(p) : InRead(f)

\* an append has returned, a second one has truncated the file and not yet
\* written it, and read_long_term returned the empty string
C28_Witness ==
    /\ hub.op = "read_long_term" /\ hub.pc = "done"
    /\ hub.guard_holder # 0
    /\ \E p \in hub.returned_before : FactsOf(p) # {}
    /\ hub.content = <<>>

-----------------------------------------------------------------------------
(* What the names of an install from a repository depend on *)

\* the call cloned a repository and has searched the clone
SearchedClone ==
    /\ hub # None
    /\ hub.op \in {"install_from_skills_source", "list_from_skills_source"}
    /\ hub.parsed.some /\ hub.parsed.val.git_url.some
    /\ hub.discovered.some

\* the skill as the same clone in the temporary directory `temp_name` gives it
Relocated(skill, temp_name) ==
    [skill EXCEPT !.dir = TempPath(temp_name) \o InTree(hub, skill.dir)]

\* the discovered skills of the same clone in another temporary directory
RelocatedAll(skills, temp_name) ==
    [i \in 1..Len(skills) |-> Relocated(skills[i], temp_name)]

RECURSIVE PickedFrom(_, _, _)
\* the install names the loop gives the skills from index i on
PickedFrom(skills, i, used_names) ==
    IF i > Len(skills) THEN <<>>
    ELSE Let(PickUniqueInstallName(BaseName(skills[i]), used_names), LAMBDA pick :
             <<pick.install_name>> \o PickedFrom(skills, i + 1, pick.used_names))

\* the positions of the discovered skills that the filters select
SelectedPositions(skills, filters) ==
    {i \in 1..Len(skills) : FilterDiscoveredSkills(<<skills[i]>>, filters) # <<>>}

\* the install names of the call do not depend on the temporary directory
InstallNamesFixed(temp_name) ==
    hub.op = "install_from_skills_source" =>
        \A i \in 1..Len(hub.installed) :
            hub.installed[i].install_name
                = PickedFrom(RelocatedAll(hub.selected, temp_name), 1, {})[i]

\* nor do the directories of a listing
ListedDirectoriesFixed(temp_name) ==
    LET here == SourceSkills(hub.discovered.val)
        there == SourceSkills(RelocatedAll(hub.discovered.val, temp_name))
    IN  {here[i].directory : i \in 1..Len(here)} = {there[i].directory : i \in 1..Len(there)}

\* nor the skills a filter selects
FilterMatchesFixed(temp_name) ==
    \A filter \in {Chars(t) : t \in TempNames} \cup {MergedFilters(hub)[i] :
                                                        i \in 1..Len(MergedFilters(hub))} :
        SelectedPositions(hub.discovered.val, <<filter>>)
            = SelectedPositions(RelocatedAll(hub.discovered.val, temp_name), <<filter>>)

\* C29: for a git source the install names, the directory names of a listing
\* and the skills a filter matches are the same whatever name tempdir() gave
\* the directory of the clone.
C29_NamesIndependentOfTempDir ==
    SearchedClone =>
        \A temp_name \in TempNames :
            /\ InstallNamesFixed(temp_name)
            /\ ListedDirectoriesFixed(temp_name)
            /\ FilterMatchesFixed(temp_name)

\* the same for the skills that are not the root of the search
C29_NamesFixedBelowTheRoot ==
    SearchedClone /\ (\A i \in 1..Len(hub.discovered.val) :
                         hub.discovered.val[i].dir # SearchRoot(hub)
                         \/ hub.parsed.val.subpath.some) =>
        \A temp_name \in TempNames :
            /\ InstallNamesFixed(temp_name)
            /\ ListedDirectoriesFixed(temp_name)
            /\ FilterMatchesFixed(temp_name)

\* an install from a repository whose root skill gives no name has returned
\* Ok, and the install name is that of the temporary directory
C29_Witness ==
    /\ SearchedClone
    /\ hub.op = "install_from_skills_source"
    /\ hub.pc = "done" /\ hub.result.val.ok
    /\ \E i \in 1..Len(hub.installed) :
          hub.installed[i].install_name = SanitizeName(Chars(hub.source_root[3]))

-----------------------------------------------------------------------------
(* The shape of a sanitized name *)

\* a text that neither begins nor ends with '.' or '-'
CleanEnds(text) == text # <<>> => text[1] \notin {".", "-"} /\ text[Len(text)] \notin {".", "-"}

\* C30: what sanitize_name returns is not empty, has at most 255 characters,
\* neither begins nor ends with '.' or '-', and is a name that sanitize_name
\* returns as it is.
C30_SanitizedShape ==
    SanitizeDone =>
        /\ hub.result.val # <<>>
        /\ Len(hub.result.val) <= MaxNameChars
        /\ CleanEnds(hub.result.val)
        /\ SanitizeName(hub.result.val) = hub.result.val

\* the same for the names whose stripped text has at most 255 characters, and
\* for all names the bounds on the length and the first character
C30_ShapeOfShortNames ==
    SanitizeDone =>
        /\ hub.result.val # <<>>
        /\ Len(hub.result.val) <= MaxNameChars
        /\ hub.result.val[1] \notin {".", "-"}
        /\ Len(StripDotsAndDashes(ReplaceRuns(ToAsciiLowercase(hub.arg)))) <= MaxNameChars =>
              /\ CleanEnds(hub.result.val)
              /\ SanitizeName(hub.result.val) = hub.result.val

\* the name of 254 times 'a' and "-b", whose stripped text has 256
\* characters, has been cut after the '-'
C30_Witness ==
    /\ SanitizeDone
    /\ hub.arg = Repeat("a", MaxNameChars - 1) \o Chars("-b")
    /\ hub.result.val = Repeat("a", MaxNameChars - 1) \o <<"-">>

====
